---- MODULE Spec2Model ----
(***************************************************************************)
(* Parallel submission engine of sol-trade-sdk                             *)
(* (src/trading/core/async_executor.rs): execute_parallel, the tasks it    *)
(* spawns and the lock-free ResultCollector they share.                    *)
(*                                                                         *)
(* Tips are f64 SOL amounts in the source; the model counts them in units  *)
(* of 0.00001 SOL, so SWQOS_MIN_TIP_DEFAULT (0.00001) is 1 and             *)
(* SWQOS_MIN_TIP_NODE1 (0.002) is 200.  A Signature is modelled by the     *)
(* number of the task that signed it, Signature::default() by 0; an error  *)
(* value by the number of the task that produced it, None by 0.            *)
(***************************************************************************)
EXTENDS Integers, Sequences, FiniteSets, TLC

\* ------------------------------------------------------------------ bounds
MaxClients == 2
MaxTasks == 2
MaxBusiness == 2
MaxRpcSecs == 1
MaxPings == 2
MaxSenders == 2
MaxBatchSize == 11
MaxBatches == 2
WordBits == 16

\* --------------------------------------------------------------- constants
SWQOS_MIN_TIP_DEFAULT == 1
SWQOS_MIN_TIP_JITO == SWQOS_MIN_TIP_DEFAULT
SWQOS_MIN_TIP_NODE1 == 200

\* poll_transaction_confirmation: timeout and interval, in seconds
PollTimeoutSecs == 15
PollIntervalSecs == 1

DefaultSignature == 0
NoError == 0

\* The providers of SwqosType the model ranges over, in the order of
\* SwqosType::values(): one with the common floor, one with its own floor,
\* and the tip-less direct provider.
SwqosValues == <<"Jito", "Node1", "Default">>
SwqosTypes == {SwqosValues[n] : n \in 1..Len(SwqosValues)}
TradeTypes == {"Buy", "Sell"}
\* GasFeeStrategyType::values()
GasFeeStrategyValues == <<"Normal", "LowTipHighCuPrice", "HighTipLowCuPrice">>
GasFeeStrategyTypes == {GasFeeStrategyValues[n] : n \in 1..Len(GasFeeStrategyValues)}

VARIABLES
    swqos_clients,              \* roster: sequence of provider types
    with_tip,
    is_buy,
    durable_nonce,              \* TRUE iff Some(DurableNonceInfo)
    wait_transaction_confirmed,
    strategies,                 \* GasFeeStrategy: key -> GasFeeStrategyValue
    pc,                         \* position of execute_parallel
    plan_i,                     \* roster index the flat_map is at
    task_configs,               \* Vec of (i, swqos_client, config)
    tasks,                      \* the spawned tasks, in spawn order
    results,                    \* ResultCollector.results (ArrayQueue)
    success_flag,               \* ResultCollector.success_flag
    completed_count,            \* ResultCollector.completed_count
    total_tasks,                \* ResultCollector.total_tasks
    w,                          \* locals of the drain in progress
    ret,                        \* what execute_parallel returned
    fee_call,                   \* the GasFeeStrategy mutator call in progress
    fee_reader,                 \* the get_strategies call in progress
    build,                      \* the build_transaction call in progress
    send,                       \* the send_transaction call in progress
    poll,                       \* the confirmation poll in progress
    keepalive,                  \* a relay client and its ping task
    trading,                    \* the TradingClient call in progress
    loaded_tables,              \* the tables a round's get_strategies calls
                                \* loaded, kept where a mutator runs beside it
    writers,                    \* two threads, each in a call of a mutator
    quic,                       \* a QUIC relay client and the tasks sending
                                \* through it
    syscall                     \* a SyscallBatchProcessor and its callers

vars == <<swqos_clients, with_tip, is_buy, durable_nonce,
          wait_transaction_confirmed, strategies, pc, plan_i, task_configs,
          tasks, results, success_flag, completed_count, total_tasks, w,
          ret, fee_call, fee_reader, build, send, poll, keepalive, trading,
          loaded_tables, writers, quic, syscall>>

\* the calls made outside a submission round
outer == <<send, poll, keepalive, trading, loaded_tables, writers, quic, syscall>>

\* what no step of a round writes: its parameters, the fee table, the
\* calls on the fee table, the transaction build and the calls outside it
inputs == <<swqos_clients, with_tip, is_buy, durable_nonce,
            wait_transaction_confirmed, strategies, fee_call, fee_reader,
            build, outer>>
collector == <<results, success_flag, completed_count, total_tasks>>

\* ------------------------------------------------------------- fee table
GasFeeStrategyValue(tip) ==
    [cu_limit |-> 1, cu_price |-> 1, tip |-> tip, data_size_limit |-> 0]

Entry(swqos, trade, strategy, tip) ==
    <<swqos, trade, strategy>> :> GasFeeStrategyValue(tip)

EmptyTable == [k \in {} |-> GasFeeStrategyValue(0)]

\* Tables the round is run against.  Each respects what GasFeeStrategy::set
\* maintains: a (provider, direction) pair holds Normal or the high/low pair.
NormalTable ==
    Entry("Jito", "Buy", "Normal", 1) @@ Entry("Jito", "Sell", "Normal", 0)
    @@ Entry("Node1", "Buy", "Normal", 1) @@ Entry("Node1", "Sell", "Normal", 200)
    @@ Entry("Default", "Buy", "Normal", 0) @@ Entry("Default", "Sell", "Normal", 1)

HighLowTable ==
    Entry("Jito", "Buy", "LowTipHighCuPrice", 0)
    @@ Entry("Jito", "Buy", "HighTipLowCuPrice", 1)
    @@ Entry("Node1", "Buy", "LowTipHighCuPrice", 1)
    @@ Entry("Node1", "Buy", "HighTipLowCuPrice", 200)
    @@ Entry("Jito", "Sell", "LowTipHighCuPrice", 1)
    @@ Entry("Jito", "Sell", "HighTipLowCuPrice", 200)
    @@ Entry("Default", "Sell", "Normal", 0)

SellOnlyTable ==
    Entry("Jito", "Sell", "Normal", 200) @@ Entry("Node1", "Sell", "Normal", 200)
    @@ Entry("Default", "Sell", "LowTipHighCuPrice", 0)
    @@ Entry("Default", "Sell", "HighTipLowCuPrice", 1)

FeeTables == {EmptyTable, NormalTable, HighLowTable, SellOnlyTable}

\* GasFeeStrategy::get_strategies: the entries of one direction, provider by
\* provider, each provider's variants in the order of
\* GasFeeStrategyType::values().  (The source walks the providers in HashSet
\* order; execute_parallel filters the list by provider, so only the order
\* within a provider is observable.)
RECURSIVE StrategiesOf(_, _, _, _)
StrategiesOf(table, trade_type, swqos_type, n) ==
    IF n > Len(GasFeeStrategyValues) THEN <<>>
    ELSE LET key == <<swqos_type, trade_type, GasFeeStrategyValues[n]>>
             rest == StrategiesOf(table, trade_type, swqos_type, n + 1)
         IN IF key \in DOMAIN table
            THEN <<<<swqos_type, GasFeeStrategyValues[n], table[key]>>>> \o rest
            ELSE rest

RECURSIVE GetStrategiesFrom(_, _, _)
GetStrategiesFrom(table, trade_type, n) ==
    IF n > Len(SwqosValues) THEN <<>>
    ELSE StrategiesOf(table, trade_type, SwqosValues[n], 1)
         \o GetStrategiesFrom(table, trade_type, n + 1)

get_strategies(table, trade_type) == GetStrategiesFrom(table, trade_type, 1)

\* ------------------------------------------------------- execute_parallel
\* the match of lines 199-212
MinTip(swqos_type) ==
    CASE swqos_type = "Jito" -> SWQOS_MIN_TIP_JITO
      [] swqos_type = "Node1" -> SWQOS_MIN_TIP_NODE1
      [] OTHER -> SWQOS_MIN_TIP_DEFAULT

\* TipFilter with the floor itself refused (`>` for `>=`)
TipFilterStrict(tipping, config) ==
    IF tipping /\ config[1] # "Default"
    THEN config[3].tip > MinTip(config[1])
    ELSE TRUE

\* the second filter of the flat_map, lines 196-223
TipFilter(tipping, config) ==
    IF tipping /\ config[1] # "Default"
    THEN config[3].tip >= MinTip(config[1])
    ELSE TRUE

\* the body of the flat_map for roster index i, lines 187-225
ClientConfigs(i, swqos_type, table, buy, tipping) ==
    LET gas_fee_strategy_configs ==
            get_strategies(table, IF buy THEN "Buy" ELSE "Sell")
        Keep(config) == config[1] = swqos_type /\ TipFilter(tipping, config)
        kept == SelectSeq(gas_fee_strategy_configs, Keep)
    IN [n \in 1..Len(kept) |->
           [i |-> i, swqos_type |-> swqos_type, strategy |-> kept[n][2],
            value |-> kept[n][3]]]

\* ClientEligible with the filter left out
ClientEligibleAlways(tipping, swqos_type) == TRUE

\* the first filter, lines 184-186
ClientEligible(tipping, swqos_type) == tipping \/ swqos_type = "Default"

\* lines 168-175
NoDefaultConfigured(tipping, clients) ==
    ~tipping /\ ~\E n \in 1..Len(clients) : clients[n] = "Default"

\* NoConfigs with the check left out
NoConfigsNever(configs) == FALSE

\* line 228
NoConfigs(configs) == configs = <<>>

\* NeedsDurableNonce with the direction forgotten
NeedsDurableNonceAnyDirection(buy, n, nonce) == n > 1 /\ ~nonce

\* line 232
NeedsDurableNonce(buy, n, nonce) == buy /\ n > 1 /\ ~nonce

Err(msg) == [kind |-> "Err", msg |-> msg, success |-> FALSE,
             signatures |-> <<>>, last_error |-> NoError]
Ok(t) == [kind |-> "Ok", msg |-> "", success |-> t[1], signatures |-> t[2],
          last_error |-> t[3]]
NotReturned == [kind |-> "None", msg |-> "", success |-> FALSE,
                signatures |-> <<>>, last_error |-> NoError]

EmptyDrain == [signatures |-> <<>>, success |-> FALSE, last_error |-> NoError]

\* no mutator call of the fee table is in progress
NoCall == [name |-> "none", swqos_type |-> "none", trade_types |-> {},
           arg |-> "none", todo |-> <<>>, before |-> EmptyTable]

\* no get_strategies call is in progress
NoRead == [pc |-> "idle", trade_type |-> "none", loaded |-> EmptyTable,
           swqos_types |-> {}, result |-> <<>>]

\* no call of a mutator by one of the two writer threads
NoWriter == [pc |-> "idle", name |-> "none", key |-> <<>>,
             value |-> GasFeeStrategyValue(0), ops |-> <<>>, todo |-> <<>>,
             loaded |-> EmptyTable]

\* a task that has not called send_transaction of the QUIC relay client
NoQuicSender == [pc |-> "idle", loaded |-> 0, sends |-> 0, first |-> "none",
                 reconnected |-> FALSE, outcome |-> "none"]

\* no QUIC relay client has been made
NoQuic == [client |-> "none", connection |-> 0, reconnect |-> 0,
           installed |-> <<>>,
           senders |-> [s \in 1..MaxSenders |-> NoQuicSender]]

\* ---- calls outside a submission round
\* no send_transaction call is in progress
NoSend == [client |-> "none", pc |-> "idle", trade_type |-> "none",
           wait_confirmation |-> FALSE, signature |-> "none",
           sent |-> FALSE, response |-> "none", polled |-> "none",
           poll_result |-> "none", outcome |-> "none", reason |-> "none"]

\* no poll_transaction_confirmation run is in progress
NoPoll == [pc |-> "idle", elapsed |-> 0, iterations |-> 0,
           status |-> [some |-> FALSE],
           details |-> [kind |-> "unasked",
                        err |-> [kind |-> "none", index |-> 0,
                                 category |-> "none", custom |-> 0]],
           outcome |-> "none", code |-> 0,
           instruction |-> [some |-> FALSE]]

\* no relay client with a keepalive has been constructed
NoKeepalive == [client |-> "none", owner |-> "none", flag |-> FALSE,
                handle |-> FALSE, starter |-> "none", aborts |-> 0,
                task |-> "none", pings |-> 0, pinged_dropped |-> FALSE]

\* no TradingClient call is in progress
NoTrade == [pc |-> "idle", entry |-> "none", called |-> "none",
            input_mint |-> "none", output_mint |-> "none",
            dex_type |-> "none", extension_params |-> "none",
            input_token_amount |-> 0, amount_token |-> 0, percent |-> 0,
            executor |-> "none", swapped |-> FALSE, outcome |-> "none",
            reason |-> "none"]

\* ---- the inputs of build_transaction
None == [some |-> FALSE]
Some(v) == [some |-> TRUE, value |-> v]

\* the business instructions a caller hands over; two kinds, so that their
\* order shows
BusinessInstructions == {"swap", "close_account"}

BusinessLists ==
    UNION {[1..n -> BusinessInstructions] : n \in 0..MaxBusiness}

\* Option<Hash>
RecentBlockhashes == {None, Some("recent_blockhash")}

\* Option<DurableNonceInfo>, both fields of which are Options
DurableNonces ==
    {None} \cup
    {Some(d) : d \in [nonce_account : {None, Some("nonce_account")},
                      current_nonce : {None, Some("nonce")}]}

\* a descriptor that names its account and carries its cached value
Usable(nonce) ==
    /\ nonce.some
    /\ nonce.value.nonce_account.some
    /\ nonce.value.current_nonce.some

\* no build_transaction call is in progress
NoBuild == [builder |-> "none", pc |-> "idle", unit_limit |-> 0,
            unit_price |-> 0, business_instructions |-> <<>>,
            recent_blockhash |-> None, with_tip |-> FALSE, tip_amount |-> 0,
            durable_nonce |-> None, instructions |-> <<>>,
            blockhash |-> None, outcome |-> "none", sent |-> FALSE]

\* no SyscallBatchProcessor has been made
NoProcessor == [pc |-> "none", batch_size |-> 0, pending_calls |-> <<>>,
                batch_stats |-> 0, next_request |-> 1, submitted |-> "none",
                batch |-> <<>>, popped |-> 0, processed |-> None]

\* the whole task_configs of a round, as the flat_map computes it when the
\* table does not change under it
RECURSIVE PlannedFrom(_, _, _, _, _)
PlannedFrom(n, clients, table, buy, tipping) ==
    IF n > Len(clients) THEN <<>>
    ELSE (IF ClientEligible(tipping, clients[n])
          THEN ClientConfigs(n, clients[n], table, buy, tipping)
          ELSE <<>>)
         \o PlannedFrom(n + 1, clients, table, buy, tipping)

SwqosIndex(swqos_type) ==
    CHOOSE n \in 1..Len(SwqosValues) : SwqosValues[n] = swqos_type

\* The roster only fixes the order in which the tasks are spawned: rosters
\* are taken with their providers in the order of SwqosType::values().
Rosters ==
    {r \in UNION {[1..n -> SwqosTypes] : n \in 0..MaxClients} :
        \A n \in 1..(Len(r) - 1) : SwqosIndex(r[n]) <= SwqosIndex(r[n + 1])}

\* The durable nonce is consulted for a buy only (line 232): sells are run
\* without one.
Init ==
    /\ swqos_clients \in Rosters
    /\ with_tip \in BOOLEAN
    /\ is_buy \in BOOLEAN
    /\ durable_nonce \in (IF is_buy THEN BOOLEAN ELSE {FALSE})
    /\ wait_transaction_confirmed \in BOOLEAN
    /\ strategies \in FeeTables
    /\ Len(PlannedFrom(1, swqos_clients, strategies, is_buy, with_tip)) <= MaxTasks
    /\ pc = "start"
    /\ plan_i = 1
    /\ task_configs = <<>>
    /\ tasks = <<>>
    /\ results = <<>>
    /\ success_flag = FALSE
    /\ completed_count = 0
    /\ total_tasks = 0
    /\ w = EmptyDrain
    /\ ret = NotReturned
    /\ fee_call = NoCall
    /\ fee_reader = NoRead
    /\ build = NoBuild
    /\ send = NoSend
    /\ poll = NoPoll
    /\ keepalive = NoKeepalive
    /\ trading = NoTrade
    /\ loaded_tables = <<>>
    /\ writers = [t \in 1..2 |-> NoWriter]
    /\ quic = NoQuic
    /\ syscall = NoProcessor

Return(r) ==
    /\ pc' = "done"
    /\ ret' = r

\* lines 164-175: the two checks on the roster
CheckClients ==
    /\ pc = "start"
    /\ IF swqos_clients = <<>>
       THEN Return(Err("swqos_clients is empty"))
       ELSE IF NoDefaultConfigured(with_tip, swqos_clients)
       THEN Return(Err("No Rpc Default Swqos configured."))
       ELSE pc' = "plan" /\ ret' = ret
    /\ UNCHANGED <<inputs, plan_i, task_configs, tasks, collector, w>>

\* lines 181-226: one roster element of the filter/flat_map; every element
\* loads the fee table anew (line 188)
PlanClient ==
    /\ pc = "plan"
    /\ plan_i <= Len(swqos_clients)
    /\ task_configs' =
          IF ClientEligible(with_tip, swqos_clients[plan_i])
          THEN task_configs
               \o ClientConfigs(plan_i, swqos_clients[plan_i], strategies,
                                is_buy, with_tip)
          ELSE task_configs
    /\ plan_i' = plan_i + 1
    /\ UNCHANGED <<inputs, pc, tasks, collector, w, ret>>

\* lines 228-238: the two checks on task_configs, then ResultCollector::new
CheckConfigs ==
    /\ pc = "plan"
    /\ plan_i > Len(swqos_clients)
    /\ IF NoConfigs(task_configs)
       THEN /\ Return(Err("No available gas fee strategy configs"))
            /\ UNCHANGED collector
       ELSE IF NeedsDurableNonce(is_buy, Len(task_configs), durable_nonce)
       THEN /\ Return(Err("Multiple swqos transactions require durable_nonce to be set."))
            /\ UNCHANGED collector
       ELSE /\ pc' = "spawn"
            /\ ret' = ret
            /\ total_tasks' = Len(task_configs)
            /\ UNCHANGED <<results, success_flag, completed_count>>
    /\ UNCHANGED <<inputs, plan_i, task_configs, tasks, w>>

\* ------------------------------------------------------------ the tasks
\* what the loop of lines 241-256 captures for one task
NewTask(cfg) ==
    [pc |-> "build", i |-> cfg.i, swqos_type |-> cfg.swqos_type,
     tip |-> cfg.value.tip, success |-> FALSE,
     signature |-> DefaultSignature, error |-> NoError, sent |-> FALSE]

\* lines 241-258: one iteration of the spawn loop.  get_tip_account (line
\* 247) returns Ok for every client type, so the `?` never leaves the loop.
SpawnTask ==
    /\ pc = "spawn"
    /\ Len(tasks) < Len(task_configs)
    /\ tasks' = Append(tasks, NewTask(task_configs[Len(tasks) + 1]))
    /\ UNCHANGED <<inputs, pc, plan_i, task_configs, collector, w, ret>>

\* lines 331-332 and 339 / 73: the loop is over; sleep 10 ms or start waiting
AllSpawned ==
    /\ pc = "spawn"
    /\ Len(tasks) = Len(task_configs)
    /\ pc' = IF wait_transaction_confirmed THEN "wait_flag" ELSE "sleep"
    /\ UNCHANGED <<inputs, plan_i, task_configs, tasks, collector, w, ret>>

\* TaskBuild that goes on to send whatever the build returned
TaskBuildThenSend(t) ==
    /\ tasks[t].pc = "build"
    /\ \E built \in BOOLEAN :
          tasks' = [tasks EXCEPT ![t] =
              IF built
              THEN [@ EXCEPT !.pc = "send", !.signature = t]
              ELSE [@ EXCEPT !.pc = "send",
                             !.signature = DefaultSignature, !.error = t]]
    /\ UNCHANGED <<inputs, pc, plan_i, task_configs, collector, w, ret>>

\* lines 265-295: build_transaction returns a signed transaction or an error
TaskBuild(t) ==
    /\ tasks[t].pc = "build"
    /\ \E built \in BOOLEAN :
          tasks' = [tasks EXCEPT ![t] =
              IF built
              THEN [@ EXCEPT !.pc = "send", !.signature = t]
              ELSE [@ EXCEPT !.pc = "push", !.success = FALSE,
                             !.signature = DefaultSignature, !.error = t]]
    /\ UNCHANGED <<inputs, pc, plan_i, task_configs, collector, w, ret>>

\* TaskSend of a task that is dropped once the caller has returned
TaskSendUnlessReturned(t) ==
    /\ pc # "done"
    /\ tasks[t].pc = "send"
    /\ \E sent \in BOOLEAN :
          tasks' = [tasks EXCEPT ![t] =
              [@ EXCEPT !.pc = "push", !.sent = TRUE, !.success = sent,
                        !.error = IF sent THEN NoError ELSE t]]
    /\ UNCHANGED <<inputs, pc, plan_i, task_configs, collector, w, ret>>

\* lines 299-325: send_transaction returns Ok or Err; the built transaction
\* always carries the payer's signature, so the task goes on to submit
TaskSend(t) ==
    /\ tasks[t].pc = "send"
    /\ \E sent \in BOOLEAN :
          tasks' = [tasks EXCEPT ![t] =
              [@ EXCEPT !.pc = "push", !.sent = TRUE, !.success = sent,
                        !.error = IF sent THEN NoError ELSE t]]
    /\ UNCHANGED <<inputs, pc, plan_i, task_configs, collector, w, ret>>

TaskResult(task) ==
    [success |-> task.success, signature |-> task.signature,
     error |-> task.error, swqos_type |-> task.swqos_type]

\* Push into a queue that holds one result less than the tasks
PushOneShort(queue, capacity, result) ==
    IF Len(queue) + 1 < capacity THEN Append(queue, result) ELSE queue

\* ArrayQueue::push: refused when the queue is full
Push(queue, capacity, result) ==
    IF Len(queue) < capacity THEN Append(queue, result) ELSE queue

\* SubmitPush that publishes a success before its result is in the queue
SubmitFlagWithoutPush(t) ==
    /\ tasks[t].pc = "push"
    /\ results' = IF tasks[t].success THEN results
                  ELSE Push(results, total_tasks, TaskResult(tasks[t]))
    /\ success_flag' = (success_flag \/ tasks[t].success)
    /\ tasks' = [tasks EXCEPT ![t].pc = IF tasks[t].success THEN "flag" ELSE "count"]
    /\ UNCHANGED <<inputs, pc, plan_i, task_configs,
                   completed_count, total_tasks, w, ret>>

\* submit, line 63
SubmitPush(t) ==
    /\ tasks[t].pc = "push"
    /\ results' = Push(results, total_tasks, TaskResult(tasks[t]))
    /\ tasks' = [tasks EXCEPT ![t].pc = IF tasks[t].success THEN "flag" ELSE "count"]
    /\ UNCHANGED <<inputs, pc, plan_i, task_configs, success_flag,
                   completed_count, total_tasks, w, ret>>

\* submit, lines 65-67
SubmitFlag(t) ==
    /\ tasks[t].pc = "flag"
    /\ success_flag' = TRUE
    /\ tasks' = [tasks EXCEPT ![t].pc = "count"]
    /\ UNCHANGED <<inputs, pc, plan_i, task_configs, results,
                   completed_count, total_tasks, w, ret>>

\* SubmitCount that adds two
SubmitCountTwice(t) ==
    /\ tasks[t].pc = "count"
    /\ completed_count' = completed_count + 2
    /\ tasks' = [tasks EXCEPT ![t].pc = "done"]
    /\ UNCHANGED <<inputs, pc, plan_i, task_configs, results, success_flag,
                   total_tasks, w, ret>>

\* submit, line 69
SubmitCount(t) ==
    /\ tasks[t].pc = "count"
    /\ completed_count' = completed_count + 1
    /\ tasks' = [tasks EXCEPT ![t].pc = "done"]
    /\ UNCHANGED <<inputs, pc, plan_i, task_configs, results, success_flag,
                   total_tasks, w, ret>>

TaskStep(t) ==
    \/ TaskBuild(t)
    \/ TaskSend(t)
    \/ SubmitPush(t)
    \/ SubmitFlag(t)
    \/ SubmitCount(t)

\* --------------------------------------------------------- the collector
\* PopInto that takes every popped result for a success
PopIntoAnySuccess(track_error) ==
    /\ results # <<>>
    /\ LET result == Head(results)
       IN w' = [signatures |-> Append(w.signatures, result.signature),
                success |-> TRUE,
                last_error |-> IF track_error /\ result.error # NoError
                               THEN result.error ELSE w.last_error]
    /\ results' = Tail(results)

\* PopInto that drops the errors
PopIntoNoError(track_error) ==
    /\ results # <<>>
    /\ LET result == Head(results)
       IN w' = [signatures |-> Append(w.signatures, result.signature),
                success |-> w.success \/ result.success,
                last_error |-> w.last_error]
    /\ results' = Tail(results)

\* PopInto that keeps the signatures of the successful results only
PopIntoOnlyWinners(track_error) ==
    /\ results # <<>>
    /\ LET result == Head(results)
       IN w' = [signatures |-> IF result.success
                               THEN Append(w.signatures, result.signature)
                               ELSE w.signatures,
                success |-> w.success \/ result.success,
                last_error |-> IF track_error /\ result.error # NoError
                               THEN result.error ELSE w.last_error]
    /\ results' = Tail(results)

\* one `while let Some(result) = self.results.pop()` iteration that pops
PopInto(track_error) ==
    /\ results # <<>>
    /\ LET result == Head(results)
       IN w' = [signatures |-> Append(w.signatures, result.signature),
                success |-> w.success \/ result.success,
                last_error |-> IF track_error /\ result.error # NoError
                               THEN result.error ELSE w.last_error]
    /\ results' = Tail(results)

\* line 332: the 10 ms sleep is over; get_first starts (lines 123-125)
Sleep ==
    /\ pc = "sleep"
    /\ pc' = "get_first"
    /\ w' = EmptyDrain
    /\ UNCHANGED <<inputs, plan_i, task_configs, tasks, collector, ret>>

\* get_first, lines 127-135
GetFirstPop ==
    /\ pc = "get_first"
    /\ PopInto(TRUE)
    /\ UNCHANGED <<inputs, pc, plan_i, task_configs, tasks, success_flag,
                   completed_count, total_tasks, ret>>

\* GetFirstReturn that answers only once a success is in
GetFirstReturnOnlySuccess ==
    /\ pc = "get_first"
    /\ results = <<>>
    /\ IF w.success
       THEN Return(Ok(<<w.success, w.signatures, w.last_error>>))
       ELSE Return(Err("No transaction signature available"))
    /\ UNCHANGED <<inputs, plan_i, task_configs, tasks, collector, w>>

\* get_first, lines 137-141, and lines 333-336
GetFirstReturn ==
    /\ pc = "get_first"
    /\ results = <<>>
    /\ IF w.signatures # <<>>
       THEN Return(Ok(<<w.success, w.signatures, w.last_error>>))
       ELSE Return(Err("No transaction signature available"))
    /\ UNCHANGED <<inputs, plan_i, task_configs, tasks, collector, w>>

\* WaitCheckFlag that acts on the flag only once every task has completed
WaitCheckFlagWhenAllDone ==
    /\ pc = "wait_flag"
    /\ IF success_flag /\ completed_count >= total_tasks
       THEN pc' = "drain_flag" /\ w' = EmptyDrain
       ELSE pc' = "wait_count" /\ w' = w
    /\ UNCHANGED <<inputs, plan_i, task_configs, tasks, collector, ret>>

\* wait_for_success, line 78 (and lines 80-81 when the flag is set)
WaitCheckFlag ==
    /\ pc = "wait_flag"
    /\ IF success_flag
       THEN pc' = "drain_flag" /\ w' = EmptyDrain
       ELSE pc' = "wait_count" /\ w' = w
    /\ UNCHANGED <<inputs, plan_i, task_configs, tasks, collector, ret>>

\* wait_for_success, lines 82-87
DrainFlagPop ==
    /\ pc = "drain_flag"
    /\ PopInto(FALSE)
    /\ UNCHANGED <<inputs, pc, plan_i, task_configs, tasks, success_flag,
                   completed_count, total_tasks, ret>>

\* wait_for_success, lines 88-91, and line 340
DrainFlagEnd ==
    /\ pc = "drain_flag"
    /\ results = <<>>
    /\ IF w.success /\ w.signatures # <<>>
       THEN Return(Ok(<<TRUE, w.signatures, NoError>>))
       ELSE pc' = "wait_count" /\ ret' = ret
    /\ UNCHANGED <<inputs, plan_i, task_configs, tasks, collector, w>>

\* wait_for_success, lines 93-98
WaitCheckCount ==
    /\ pc = "wait_count"
    /\ IF completed_count >= total_tasks
       THEN pc' = "drain_count" /\ w' = EmptyDrain
       ELSE pc' = "wait_timeout" /\ w' = w
    /\ UNCHANGED <<inputs, plan_i, task_configs, tasks, collector, ret>>

\* wait_for_success, lines 99-107
DrainCountPop ==
    /\ pc = "drain_count"
    /\ PopInto(TRUE)
    /\ UNCHANGED <<inputs, pc, plan_i, task_configs, tasks, success_flag,
                   completed_count, total_tasks, ret>>

\* DrainCountEnd that returns nothing after its pops
DrainCountEndNone ==
    /\ pc = "drain_count"
    /\ results = <<>>
    /\ Return(Err("All transactions failed"))
    /\ UNCHANGED <<inputs, plan_i, task_configs, tasks, collector, w>>

\* wait_for_success, lines 108-111, and lines 339-343
DrainCountEnd ==
    /\ pc = "drain_count"
    /\ results = <<>>
    /\ IF w.signatures # <<>>
       THEN Return(Ok(<<w.success, w.signatures, w.last_error>>))
       ELSE Return(Err("All transactions failed"))
    /\ UNCHANGED <<inputs, plan_i, task_configs, tasks, collector, w>>

\* WaitTimedOut that goes round the loop instead of returning
WaitTimedOutContinues ==
    /\ pc = "wait_timeout"
    /\ pc' = "wait_flag"
    /\ UNCHANGED <<inputs, plan_i, task_configs, tasks, collector, w, ret>>

\* wait_for_success, lines 114-116, and lines 341-343: the check of the
\* 30 s ceiling finds it exceeded
WaitTimedOut ==
    /\ pc = "wait_timeout"
    /\ Return(Err("All transactions failed"))
    /\ UNCHANGED <<inputs, plan_i, task_configs, tasks, collector, w>>

\* wait_for_success, lines 114 and 117: the ceiling is not exceeded yet; the
\* waiter yields and goes round the loop
WaitYield ==
    /\ pc = "wait_timeout"
    /\ pc' = "wait_flag"
    /\ UNCHANGED <<inputs, plan_i, task_configs, tasks, collector, w, ret>>

Caller ==
    \/ CheckClients
    \/ PlanClient
    \/ CheckConfigs
    \/ SpawnTask
    \/ AllSpawned
    \/ Sleep
    \/ GetFirstPop
    \/ GetFirstReturn
    \/ WaitCheckFlag
    \/ DrainFlagPop
    \/ DrainFlagEnd
    \/ WaitCheckCount
    \/ DrainCountPop
    \/ DrainCountEnd
    \/ WaitTimedOut
    \/ WaitYield

Tasks == \E t \in 1..Len(tasks) : TaskStep(t)

Next ==
    \/ Caller
    \/ Tasks

Spec == Init /\ [][Next]_vars

\* The rounds the progress properties are checked on: any number of clients
\* of the direct provider, with one fee entry each or with two.  What the
\* waiter and the tasks do after the spawn loop depends on the number of
\* tasks alone.
FairInit ==
    /\ Init
    /\ with_tip /\ ~is_buy /\ ~durable_nonce
    /\ strategies \in {NormalTable, SellOnlyTable}
    /\ \A n \in 1..Len(swqos_clients) : swqos_clients[n] = "Default"

\* The caller's future is polled until it returns: every step of
\* execute_parallel that can be taken is taken.  Nothing is assumed of the
\* tasks: a send may hang for ever.
FairSpec == FairInit /\ [][Next]_vars /\ WF_vars(Caller)

\* Time passes: a waiter that keeps going round the loop of
\* wait_for_success finds the 30 s exceeded in the end.
CeilingSpec == FairSpec /\ SF_vars(WaitTimedOut)

\* Every send_transaction returns and the runtime keeps polling the tasks.
TaskFairSpec ==
    CeilingSpec /\ \A t \in 1..MaxTasks : WF_vars(t <= Len(tasks) /\ TaskStep(t))

\* ========================================================= GasFeeStrategy
\* The table behind ArcSwap (src/common/gas_fee_strategy.rs).  `strategies`
\* is the map the pointer designates.  Every rcu or store of the source is
\* one atomic step (rcu retries its closure until its compare-and-swap
\* succeeds, so its effect is one read-modify-write of the current map); a
\* mutator that makes several of them is several steps.

\* the variables of a submission round, which no call on the table writes
round == <<swqos_clients, with_tip, is_buy, durable_nonce,
           wait_transaction_confirmed, pc, plan_i, task_configs, tasks,
           results, success_flag, completed_count, total_tasks, w, ret,
           loaded_tables, writers, quic, syscall>>

FeeValue(cu_limit, cu_price, tip, data_size_limit) ==
    [cu_limit |-> cu_limit, cu_price |-> cu_price, tip |-> tip,
     data_size_limit |-> data_size_limit]

\* one rcu (or store) of a mutator
Rcu(op, swqos_type, trade_type, strategy_types, value) ==
    [op |-> op, swqos_type |-> swqos_type, trade_type |-> trade_type,
     strategy_types |-> strategy_types, value |-> value]

Keys(swqos_type, trade_type, strategy_types) ==
    {<<swqos_type, trade_type, ty>> : ty \in strategy_types}

\* the closure of one rcu applied to the current map
Apply(table, m) ==
    CASE m.op = "remove" ->
           [k \in DOMAIN table
                  \ Keys(m.swqos_type, m.trade_type, m.strategy_types)
              |-> table[k]]
      [] m.op = "insert" ->
           [k \in DOMAIN table
                  \cup Keys(m.swqos_type, m.trade_type, m.strategy_types)
              |-> IF k \in Keys(m.swqos_type, m.trade_type, m.strategy_types)
                  THEN m.value ELSE table[k]]
      [] m.op = "update_tip" ->
           [k \in DOMAIN table
              |-> IF k[2] = m.trade_type
                  THEN [table[k] EXCEPT !.tip = m.value.tip] ELSE table[k]]
      [] m.op = "update_cu_price" ->
           [k \in DOMAIN table
              |-> IF k[2] = m.trade_type
                  THEN [table[k] EXCEPT !.cu_price = m.value.cu_price]
                  ELSE table[k]]
      [] m.op = "store_empty" -> EmptyTable

RECURSIVE ApplyAll(_, _)
ApplyAll(table, ops) ==
    IF ops = <<>> THEN table ELSE ApplyAll(Apply(table, Head(ops)), Tail(ops))

\* lines 275-286
del(swqos_type, trade_type, strategy_type) ==
    <<Rcu("remove", swqos_type, trade_type, {strategy_type}, FeeValue(0, 0, 0, 0))>>

\* lines 263-271: one rcu removes the three variants
del_all(swqos_type, trade_type) ==
    <<Rcu("remove", swqos_type, trade_type, GasFeeStrategyTypes, FeeValue(0, 0, 0, 0))>>

\* set that inserts without removing the variants it excludes
set_insert_only(swqos_type, trade_type, strategy_type, value) ==
    <<Rcu("insert", swqos_type, trade_type, {strategy_type}, value)>>

\* lines 235-259: the excluded variants are removed by calls of del, then
\* the entry is inserted by an rcu of its own
set(swqos_type, trade_type, strategy_type, value) ==
    (IF strategy_type = "Normal"
     THEN del(swqos_type, trade_type, "HighTipLowCuPrice")
          \o del(swqos_type, trade_type, "LowTipHighCuPrice")
     ELSE del(swqos_type, trade_type, "Normal"))
    \o <<Rcu("insert", swqos_type, trade_type, {strategy_type}, value)>>

\* set_high_low_fee_strategy that sets the low-tip variant only
set_high_low_only_low(swqos_type, trade_type, cu_limit, low_cu_price, high_cu_price, low_tip, high_tip, data_size_limit) ==
    IF swqos_type = "Default" THEN <<>>
    ELSE del(swqos_type, trade_type, "Normal")
         \o set(swqos_type, trade_type, "LowTipHighCuPrice",
                FeeValue(cu_limit, high_cu_price, low_tip, data_size_limit))

\* lines 132-165
set_high_low_fee_strategy(swqos_type, trade_type, cu_limit, low_cu_price, high_cu_price, low_tip, high_tip, data_size_limit) ==
    IF swqos_type = "Default" THEN <<>>
    ELSE del(swqos_type, trade_type, "Normal")
         \o set(swqos_type, trade_type, "LowTipHighCuPrice",
                FeeValue(cu_limit, high_cu_price, low_tip, data_size_limit))
         \o set(swqos_type, trade_type, "HighTipLowCuPrice",
                FeeValue(cu_limit, low_cu_price, high_tip, data_size_limit))

\* lines 201-233
set_normal_fee_strategy(swqos_type, cu_limit, cu_price, buy_tip, sell_tip, buy_data_size_limit, sell_data_size_limit) ==
    del_all(swqos_type, "Buy")
    \o del_all(swqos_type, "Sell")
    \o set(swqos_type, "Buy", "Normal",
           FeeValue(cu_limit, cu_price, buy_tip, buy_data_size_limit))
    \o set(swqos_type, "Sell", "Normal",
           FeeValue(cu_limit, cu_price, sell_tip, sell_data_size_limit))

\* lines 316-318
clear == <<Rcu("store_empty", "none", "none", {}, FeeValue(0, 0, 0, 0))>>

\* update_buy_tip that writes the tip of every entry
update_buy_tip_all(buy_tip) ==
    <<Rcu("update_tip", "none", "Buy", {}, FeeValue(0, 0, buy_tip, 0)),
      Rcu("update_tip", "none", "Sell", {}, FeeValue(0, 0, buy_tip, 0))>>

\* lines 322-332
update_buy_tip(buy_tip) ==
    <<Rcu("update_tip", "none", "Buy", {}, FeeValue(0, 0, buy_tip, 0))>>

\* lines 336-346
update_sell_tip(sell_tip) ==
    <<Rcu("update_tip", "none", "Sell", {}, FeeValue(0, 0, sell_tip, 0))>>

\* lines 350-360
update_buy_cu_price(buy_cu_price) ==
    <<Rcu("update_cu_price", "none", "Buy", {}, FeeValue(0, buy_cu_price, 0, 0))>>

\* lines 364-374
update_sell_cu_price(sell_cu_price) ==
    <<Rcu("update_cu_price", "none", "Sell", {}, FeeValue(0, sell_cu_price, 0, 0))>>

\* ------------------------------------------- calls on the table
\* The provider the calls are made for; set_high_low_fee_strategy is also
\* called for the direct provider, which it refuses (lines 143-145).
FeeSwqosTypes == {"Jito"}

SetValue == FeeValue(1, 1, 1, 0)

\* a public mutator is entered: its rcu steps are still to be made
Begin(name, swqos_type, trade_types, arg, ops) ==
    /\ fee_call' = [name |-> name, swqos_type |-> swqos_type,
                    trade_types |-> trade_types, arg |-> arg, todo |-> ops,
                    before |-> strategies]
    /\ UNCHANGED <<strategies, fee_reader, round, build, outer>>

CallSet ==
    /\ fee_call = NoCall
    /\ \E swqos_type \in FeeSwqosTypes, trade_type \in TradeTypes,
          strategy_type \in GasFeeStrategyTypes :
           Begin("set", swqos_type, {trade_type}, strategy_type,
                 set(swqos_type, trade_type, strategy_type, SetValue))

CallDel ==
    /\ fee_call = NoCall
    /\ \E swqos_type \in FeeSwqosTypes, trade_type \in TradeTypes,
          strategy_type \in GasFeeStrategyTypes :
           Begin("del", swqos_type, {trade_type}, strategy_type,
                 del(swqos_type, trade_type, strategy_type))

CallDelAll ==
    /\ fee_call = NoCall
    /\ \E swqos_type \in FeeSwqosTypes, trade_type \in TradeTypes :
           Begin("del_all", swqos_type, {trade_type}, "none",
                 del_all(swqos_type, trade_type))

CallSetHighLow ==
    /\ fee_call = NoCall
    /\ \E swqos_type \in FeeSwqosTypes \cup {"Default"}, trade_type \in TradeTypes :
           Begin("set_high_low_fee_strategy", swqos_type, {trade_type}, "none",
                 set_high_low_fee_strategy(swqos_type, trade_type, 1, 1, 2, 1, 2, 0))

CallSetNormal ==
    /\ fee_call = NoCall
    /\ \E swqos_type \in FeeSwqosTypes :
           Begin("set_normal_fee_strategy", swqos_type, TradeTypes, "none",
                 set_normal_fee_strategy(swqos_type, 1, 1, 1, 2, 0, 1))

CallClear ==
    /\ fee_call = NoCall
    /\ Begin("clear", "none", TradeTypes, "none", clear)

\* the value the update_* calls are made with
UpdateTo == 3

CallUpdateBuyTip ==
    /\ fee_call = NoCall
    /\ Begin("update_buy_tip", "none", {"Buy"}, UpdateTo, update_buy_tip(UpdateTo))

CallUpdateSellTip ==
    /\ fee_call = NoCall
    /\ Begin("update_sell_tip", "none", {"Sell"}, UpdateTo, update_sell_tip(UpdateTo))

CallUpdateBuyCuPrice ==
    /\ fee_call = NoCall
    /\ Begin("update_buy_cu_price", "none", {"Buy"}, UpdateTo,
             update_buy_cu_price(UpdateTo))

CallUpdateSellCuPrice ==
    /\ fee_call = NoCall
    /\ Begin("update_sell_cu_price", "none", {"Sell"}, UpdateTo,
             update_sell_cu_price(UpdateTo))

\* the next rcu (or store) of the call in progress swaps the map
RcuStep ==
    /\ fee_call.todo # <<>>
    /\ strategies' = Apply(strategies, Head(fee_call.todo))
    /\ fee_call' = [fee_call EXCEPT !.todo = Tail(@)]
    /\ UNCHANGED <<fee_reader, round, build, outer>>

\* the mutator returns
CallReturn ==
    /\ fee_call # NoCall
    /\ fee_call.todo = <<>>
    /\ fee_call' = NoCall
    /\ UNCHANGED <<strategies, fee_reader, round, build, outer>>

\* ------------------------------------------------------ get_strategies
\* line 294: the one load of the pointer
ReaderLoad ==
    /\ fee_reader.pc = "idle"
    /\ \E trade_type \in TradeTypes :
          fee_reader' = [NoRead EXCEPT !.pc = "loaded", !.trade_type = trade_type,
                                       !.loaded = strategies]
    /\ UNCHANGED <<strategies, fee_call, round, build, outer>>

\* lines 296-301: the providers that have an entry of the direction
ReaderKeys ==
    /\ fee_reader.pc = "loaded"
    /\ fee_reader' =
          [fee_reader EXCEPT
              !.pc = "keys",
              !.swqos_types = {k[1] : k \in {k \in DOMAIN fee_reader.loaded :
                                               k[2] = fee_reader.trade_type}}]
    /\ UNCHANGED <<strategies, fee_call, round, build, outer>>

\* lines 302-310 over the map `table`: the providers in the order of
\* SwqosValues (the order of the HashSet is not modelled)
RECURSIVE CollectFrom(_, _, _, _)
CollectFrom(table, trade_type, swqos_types, n) ==
    IF n > Len(SwqosValues) THEN <<>>
    ELSE (IF SwqosValues[n] \in swqos_types
          THEN StrategiesOf(table, trade_type, SwqosValues[n], 1)
          ELSE <<>>)
         \o CollectFrom(table, trade_type, swqos_types, n + 1)

\* ReaderCollect that looks the entries up in the map the pointer
\* designates now
ReaderCollectLive ==
    /\ fee_reader.pc = "keys"
    /\ fee_reader' =
          [fee_reader EXCEPT
              !.pc = "done",
              !.result = CollectFrom(strategies, fee_reader.trade_type,
                                     fee_reader.swqos_types, 1)]
    /\ UNCHANGED <<strategies, fee_call, round, build, outer>>

\* lines 302-311: the entries are looked up in the loaded map
ReaderCollect ==
    /\ fee_reader.pc = "keys"
    /\ fee_reader' =
          [fee_reader EXCEPT
              !.pc = "done",
              !.result = CollectFrom(fee_reader.loaded, fee_reader.trade_type,
                                     fee_reader.swqos_types, 1)]
    /\ UNCHANGED <<strategies, fee_call, round, build, outer>>

\* get_strategies has returned its result
ReaderReturn ==
    /\ fee_reader.pc = "done"
    /\ fee_reader' = NoRead
    /\ UNCHANGED <<strategies, fee_call, round, build, outer>>

\* GasFeeStrategy::new() (lines 34-36), no round under way
FeeInit ==
    /\ swqos_clients = <<>>
    /\ with_tip = TRUE
    /\ is_buy = FALSE
    /\ durable_nonce = FALSE
    /\ wait_transaction_confirmed = FALSE
    /\ strategies = EmptyTable
    /\ pc = "start"
    /\ plan_i = 1
    /\ task_configs = <<>>
    /\ tasks = <<>>
    /\ results = <<>>
    /\ success_flag = FALSE
    /\ completed_count = 0
    /\ total_tasks = 0
    /\ w = EmptyDrain
    /\ ret = NotReturned
    /\ fee_call = NoCall
    /\ fee_reader = NoRead
    /\ build = NoBuild
    /\ send = NoSend
    /\ poll = NoPoll
    /\ keepalive = NoKeepalive
    /\ trading = NoTrade
    /\ loaded_tables = <<>>
    /\ writers = [t \in 1..2 |-> NoWriter]
    /\ quic = NoQuic
    /\ syscall = NoProcessor

\* one thread calling the public mutators one after the other
FeeNext ==
    \/ CallSet
    \/ CallDel
    \/ CallDelAll
    \/ CallSetHighLow
    \/ CallSetNormal
    \/ CallClear
    \/ CallUpdateBuyTip
    \/ CallUpdateSellTip
    \/ CallUpdateBuyCuPrice
    \/ CallUpdateSellCuPrice
    \/ RcuStep
    \/ CallReturn

FeeSpec == FeeInit /\ [][FeeNext]_vars

\* one thread making strategy-setting calls and one calling get_strategies
ReadNext ==
    \/ CallSet
    \/ CallSetHighLow
    \/ CallSetNormal
    \/ RcuStep
    \/ CallReturn
    \/ ReaderLoad
    \/ ReaderKeys
    \/ ReaderCollect
    \/ ReaderReturn

ReadSpec == FeeInit /\ [][ReadNext]_vars

\* ======================================================= build_transaction
\* The two transaction builders: trading/common/transaction_builder.rs (the
\* one the submission tasks call) and trading/common/arb_transaction_builder.rs
\* (the one send_to_grpc calls).  Each statement that extends the instruction
\* list is one step.  An instruction is modelled by its kind.
\* nonce_manager.rs (add_nonce_instruction, get_transaction_blockhash) and
\* the middleware manager are not part of the sources: the first two are
\* modelled from the specification, and builds are made with
\* middleware_manager = None (line 97), so that full_instructions is the
\* list build_transaction assembled.

\* compute_budget_instructions: the price instruction if the price is
\* positive, then the limit instruction if the limit is positive (the cache
\* returns what was computed for the same pair)
compute_budget_instructions(unit_price, unit_limit) ==
    (IF unit_price > 0 THEN <<"set_compute_unit_price">> ELSE <<>>) \o
    (IF unit_limit > 0 THEN <<"set_compute_unit_limit">> ELSE <<>>)

\* the tip transfer both builders push
tip_transfer(tip, tip_amount) ==
    IF tip /\ tip_amount > 0 THEN <<"transfer">> ELSE <<>>

\* add_nonce_instruction, as the specification has it: a build that targets
\* a durable nonce gets the nonce-advance instruction pushed, one that has no
\* descriptor gets nothing.  What it does with a descriptor that lacks a
\* field is not stated: it may fail, push nothing, or push the advance of
\* the account it has.  The set of its possible results.
add_nonce_instruction(instructions, nonce) ==
    IF ~nonce.some
    THEN {[kind |-> "Ok", instructions |-> instructions]}
    ELSE IF Usable(nonce)
    THEN {[kind |-> "Ok",
           instructions |-> Append(instructions, "advance_nonce_account")]}
    ELSE {[kind |-> "Err", instructions |-> instructions],
          [kind |-> "Ok", instructions |-> instructions]}
         \cup (IF nonce.value.nonce_account.some
               THEN {[kind |-> "Ok",
                      instructions |->
                          Append(instructions, "advance_nonce_account")]}
               ELSE {})

\* get_transaction_blockhash, as the specification has it: the explicit
\* recent blockhash if provided, else the cached value of a usable durable
\* nonce; None stands for its failing
get_transaction_blockhash(recent_blockhash, nonce) ==
    IF recent_blockhash.some THEN recent_blockhash
    ELSE IF Usable(nonce) THEN nonce.value.current_nonce
    ELSE None

\* the order of the statements, as the specification words it
next_step_as_specified(builder, at) ==
    CASE at = "add_nonce" -> "compute_budget"
      [] at = "compute_budget" -> "tip"
      [] at = "tip" -> "business"
      [] at = "business" -> IF builder = "standard" THEN "blockhash"
                            ELSE "build"
      [] at = "blockhash" -> "build"

\* the order of the statements of the two build_transaction functions
next_step(builder, at) ==
    IF builder = "standard"
    THEN CASE at = "add_nonce" -> "tip"
           [] at = "tip" -> "compute_budget"
           [] at = "compute_budget" -> "business"
           [] at = "business" -> "blockhash"
           [] at = "blockhash" -> "build"
    ELSE CASE at = "compute_budget" -> "business"
           [] at = "business" -> "tip"
           [] at = "tip" -> "build"

\* the variables no step of a build writes
not_build == <<strategies, fee_call, fee_reader, round, outer>>

\* a submission task calls build_transaction of transaction_builder.rs
CallBuildTransaction ==
    /\ build = NoBuild
    /\ \E unit_limit \in 0..1, unit_price \in 0..1,
          business_instructions \in BusinessLists,
          recent_blockhash \in RecentBlockhashes,
          tip \in BOOLEAN, tip_amount \in 0..1,
          nonce \in DurableNonces :
           build' = [NoBuild EXCEPT
                        !.builder = "standard", !.pc = "add_nonce",
                        !.unit_limit = unit_limit,
                        !.unit_price = unit_price,
                        !.business_instructions = business_instructions,
                        !.recent_blockhash = recent_blockhash,
                        !.with_tip = tip, !.tip_amount = tip_amount,
                        !.durable_nonce = nonce]
    /\ UNCHANGED not_build

\* send_to_grpc calls build_transaction of arb_transaction_builder.rs, which
\* has no durable_nonce parameter
CallArbBuildTransaction ==
    /\ build = NoBuild
    /\ \E unit_limit \in 0..1, unit_price \in 0..1,
          business_instructions \in BusinessLists,
          recent_blockhash \in RecentBlockhashes,
          tip \in BOOLEAN, tip_amount \in 0..1 :
           build' = [NoBuild EXCEPT
                        !.builder = "arb", !.pc = "compute_budget",
                        !.unit_limit = unit_limit,
                        !.unit_price = unit_price,
                        !.business_instructions = business_instructions,
                        !.recent_blockhash = recent_blockhash,
                        !.with_tip = tip, !.tip_amount = tip_amount]
    /\ UNCHANGED not_build

\* transaction_builder.rs lines 40-44
AddNonce ==
    /\ build.pc = "add_nonce"
    /\ \E r \in add_nonce_instruction(build.instructions,
                                      build.durable_nonce) :
           build' = IF r.kind = "Err"
                    THEN [build EXCEPT !.pc = "returned", !.outcome = "Err"]
                    ELSE [build EXCEPT
                             !.pc = next_step(build.builder, "add_nonce"),
                             !.instructions = r.instructions]
    /\ UNCHANGED not_build

\* transaction_builder.rs lines 47-53, arb_transaction_builder.rs 42-48
AddTip ==
    /\ build.pc = "tip"
    /\ build' = [build EXCEPT
                    !.pc = next_step(build.builder, "tip"),
                    !.instructions =
                        @ \o tip_transfer(build.with_tip, build.tip_amount)]
    /\ UNCHANGED not_build

\* transaction_builder.rs lines 56-59, arb_transaction_builder.rs 33-36
AddComputeBudget ==
    /\ build.pc = "compute_budget"
    /\ build' = [build EXCEPT
                    !.pc = next_step(build.builder, "compute_budget"),
                    !.instructions =
                        @ \o compute_budget_instructions(build.unit_price,
                                                         build.unit_limit)]
    /\ UNCHANGED not_build

\* transaction_builder.rs line 62, arb_transaction_builder.rs line 39
AddBusiness ==
    /\ build.pc = "business"
    /\ build' = [build EXCEPT
                    !.pc = next_step(build.builder, "business"),
                    !.instructions = @ \o build.business_instructions]
    /\ UNCHANGED not_build

\* transaction_builder.rs line 65: the value is bound as a Hash with no
\* error path, so a failing resolution cannot return Err from here: it
\* unwinds
GetBlockhash ==
    /\ build.pc = "blockhash"
    /\ LET blockhash == get_transaction_blockhash(build.recent_blockhash,
                                                  build.durable_nonce)
       IN  build' = IF blockhash.some
                    THEN [build EXCEPT
                             !.pc = next_step(build.builder, "blockhash"),
                             !.blockhash = blockhash]
                    ELSE [build EXCEPT !.pc = "returned",
                                       !.outcome = "panic"]
    /\ UNCHANGED not_build

\* build_versioned_transaction: the message over the instructions and the
\* blockhash is signed and returned.  The arbitrage builder passes
\* recent_blockhash.unwrap() (line 55), which panics on None.
BuildVersioned ==
    /\ build.pc = "build"
    /\ build' = IF build.builder = "arb" /\ ~build.recent_blockhash.some
                THEN [build EXCEPT !.pc = "returned", !.outcome = "panic"]
                ELSE [build EXCEPT
                         !.pc = "returned", !.outcome = "Ok",
                         !.blockhash = IF build.builder = "arb"
                                       THEN build.recent_blockhash ELSE @]
    /\ UNCHANGED not_build

\* the caller sends the transaction it got (async_executor.rs Ok(tx) => tx,
\* lib.rs send_to_grpc after the `?`)
SendTransaction ==
    /\ build.pc = "returned"
    /\ build.outcome = "Ok"
    /\ build' = [build EXCEPT !.pc = "done", !.sent = TRUE]
    /\ UNCHANGED not_build

\* the caller of a build that returned Err reports the failure and sends
\* nothing
ReportBuildFailure ==
    /\ build.pc = "returned"
    /\ build.outcome = "Err"
    /\ build' = [build EXCEPT !.pc = "done"]
    /\ UNCHANGED not_build

\* the caller is ready for its next build
NextBuild ==
    /\ build.pc = "done"
    /\ build' = NoBuild
    /\ UNCHANGED not_build

BuildNext ==
    \/ CallBuildTransaction
    \/ CallArbBuildTransaction
    \/ AddNonce
    \/ AddTip
    \/ AddComputeBudget
    \/ AddBusiness
    \/ GetBlockhash
    \/ BuildVersioned
    \/ SendTransaction
    \/ ReportBuildFailure
    \/ NextBuild

BuildSpec == FeeInit /\ [][BuildNext]_vars

\* ============================================================ relay clients
\* send_transaction of the relay clients.  Two of them send over a QUIC
\* connection (swqos/soyas.rs, swqos/speedlanding.rs), two post to an HTTP
\* endpoint (swqos/jito.rs, swqos/stellium.rs).  Every await is one step; what
\* the network, the vendor and the chain answer is drawn.

QuicClients == {"Soyas", "Speedlanding"}
HttpClients == {"Jito", "Stellium"}

\* what the vendor's HTTP body is to the parse at jito.rs line 103 and
\* stellium.rs line 147: a JSON object with a result, one with an error, or
\* text that is not JSON
VendorResponses == {"result", "error", "unparsable"}

\* what a run of poll_transaction_confirmation ends in (swqos/common.rs):
\* Ok at lines 78 and 109, the timeout at line 66, the decoded on-chain error
\* at line 162, the status query's error passed on at line 69
PollOutcomes == {"Confirmed", "Failed", "TimedOut", "RpcError"}

\* The three-argument poll_transaction_confirmation that speedlanding.rs,
\* jito.rs and stellium.rs call is not part of the sources (common.rs has the
\* two-argument one).  As the specification has it, the poller is delegated
\* to only if waiting for confirmation was asked for.
PollResults(client, wait_confirmation) ==
    IF client = "Soyas" \/ wait_confirmation THEN PollOutcomes
    ELSE {"NotPolled"}

\* leaves send_transaction with the given result
SendReturns(kind, reason) ==
    send' = [send EXCEPT !.pc = "returned", !.outcome = kind,
                         !.reason = reason]

\* the variables no step of a relay client writes
not_send == <<strategies, fee_call, fee_reader, round, build, poll,
              keepalive, trading>>

\* a submission task calls send_transaction (async_executor.rs lines 301-306)
CallSendTransaction ==
    /\ send = NoSend
    /\ \E client \in QuicClients \cup HttpClients,
          trade_type \in {"Buy", "Sell"}, wait_confirmation \in BOOLEAN :
           send' = [NoSend EXCEPT !.client = client, !.pc = "serialize",
                                  !.trade_type = trade_type,
                                  !.wait_confirmation = wait_confirmation,
                                  !.signature = "signature"]
    /\ UNCHANGED not_send

\* bincode::serialize(transaction)? and serialize_transaction_and_encode(..)?
Serialize ==
    /\ send.pc = "serialize"
    /\ \/ SendReturns("Err", "serialize")
       \/ send' = [send EXCEPT !.pc = IF send.client \in QuicClients
                                      THEN "try_send" ELSE "post"]
    /\ UNCHANGED not_send

\* the first try_send_bytes: soyas.rs lines 108-111 returns Ok(()) when it
\* succeeds; speedlanding.rs lines 110-111 goes on to the poll
FirstSend ==
    /\ send.pc = "try_send"
    /\ \E sent \in BOOLEAN :
           IF ~sent THEN send' = [send EXCEPT !.pc = "reconnect"]
           ELSE IF send.client = "Soyas"
           THEN send' = [send EXCEPT !.pc = "returned", !.outcome = "Ok",
                                     !.sent = TRUE]
           ELSE send' = [send EXCEPT !.pc = "poll", !.sent = TRUE]
    /\ UNCHANGED not_send

\* self.reconnect().await? (soyas.rs line 113, speedlanding.rs line 113)
Reconnect ==
    /\ send.pc = "reconnect"
    /\ \/ SendReturns("Err", "reconnect")
       \/ send' = [send EXCEPT !.pc = "resend"]
    /\ UNCHANGED not_send

\* the second try_send_bytes (soyas.rs line 115, speedlanding.rs 115-118)
SecondSend ==
    /\ send.pc = "resend"
    /\ \/ SendReturns("Err", "transport")
       \/ send' = [send EXCEPT !.pc = "poll", !.sent = TRUE]
    /\ UNCHANGED not_send

\* the POST and the reading of its body (jito.rs lines 95-111, stellium.rs
\* lines 136-155): a transport error is returned, the body is parsed and
\* only logged
HttpPost ==
    /\ send.pc = "post"
    /\ \/ SendReturns("Err", "transport")
       \/ \E response \in VendorResponses :
              send' = [send EXCEPT !.pc = "poll", !.sent = TRUE,
                                   !.response = response]
    /\ UNCHANGED not_send

\* the call of poll_transaction_confirmation with the transaction's
\* signature and the return on its result (soyas.rs lines 118-128,
\* speedlanding.rs 120-132, jito.rs 113-127, stellium.rs 157-171)
PollConfirmation ==
    /\ send.pc = "poll"
    /\ \E result \in PollResults(send.client, send.wait_confirmation) :
           send' = [send EXCEPT
                       !.pc = "returned",
                       !.polled = IF result = "NotPolled" THEN "none"
                                  ELSE send.signature,
                       !.poll_result = result,
                       !.outcome = IF result \in {"Confirmed", "NotPolled"}
                                   THEN "Ok" ELSE "Err",
                       !.reason = IF result \in {"Confirmed", "NotPolled"}
                                  THEN "none" ELSE result]
    /\ UNCHANGED not_send

\* the task has its answer and the client is called again
NextSend ==
    /\ send.pc = "returned"
    /\ send' = NoSend
    /\ UNCHANGED not_send

SendNext ==
    \/ CallSendTransaction
    \/ Serialize
    \/ FirstSend
    \/ Reconnect
    \/ SecondSend
    \/ HttpPost
    \/ PollConfirmation
    \/ NextSend

SendSpec == FeeInit /\ [][SendNext]_vars

\* ===================================================== confirmation poller
\* poll_transaction_confirmation (swqos/common.rs lines 56-170).  Time is
\* counted in seconds; each await is one step, and what the chain-read
\* handle answers is drawn.

\* a signature status, as line 72 reads it: whether err is set and the
\* confirmation level
SignatureStatuses ==
    {None} \cup
    {Some(st) : st \in [err : BOOLEAN,
                        confirmation_status :
                            {"processed", "confirmed", "finalized"}]}

\* InstructionError variants: the ones the match at lines 143-156 lists and
\* one it does not
InstructionErrors ==
    {"Custom", "GenericError", "InvalidArgument", "InvalidInstructionData",
     "InvalidAccountData", "AccountDataTooSmall", "InsufficientFunds",
     "IncorrectProgramId", "MissingRequiredSignature",
     "AccountAlreadyInitialized", "UninitializedAccount",
     "ProgramFailedToComplete"}

CustomCodes == {0, 6, 6001}

NoTransactionError == [kind |-> "none", index |-> 0, category |-> "none",
                       custom |-> 0]

\* TransactionError: InstructionError(index, category) or another variant
TransactionErrors ==
    {[kind |-> "InstructionError", index |-> i, category |-> category,
      custom |-> IF category = "Custom" THEN c ELSE 0] :
         i \in 0..1, category \in InstructionErrors, c \in CustomCodes}
    \cup {[kind |-> "InsufficientFundsForFee", index |-> 0,
           category |-> "none", custom |-> 0]}

\* what get_transaction_with_config answers: an error, details without
\* meta, or details whose meta has err None or Some
NotAsked == [kind |-> "unasked", err |-> NoTransactionError]

TransactionDetails ==
    {[kind |-> "Err", err |-> NoTransactionError],
     [kind |-> "NoMeta", err |-> NoTransactionError],
     [kind |-> "Meta", err |-> NoTransactionError]}
    \cup {[kind |-> "Meta", err |-> e] : e \in TransactionErrors}

\* lines 72-76 with the confirmation level left out
status_confirmed_any_level(status) == status.some /\ ~status.value.err

\* lines 72-76
status_confirmed(status) ==
    /\ status.some
    /\ ~status.value.err
    /\ status.value.confirmation_status \in {"confirmed", "finalized"}

\* lines 143-156 with every category taken for unknown
error_code_unknown(i_error, custom) == 999

\* lines 143-156
error_code(i_error, custom) ==
    CASE i_error = "Custom" -> custom
      [] i_error = "GenericError" -> 1
      [] i_error = "InvalidArgument" -> 2
      [] i_error = "InvalidInstructionData" -> 3
      [] i_error = "InvalidAccountData" -> 4
      [] i_error = "AccountDataTooSmall" -> 5
      [] i_error = "InsufficientFunds" -> 6
      [] i_error = "IncorrectProgramId" -> 7
      [] i_error = "MissingRequiredSignature" -> 8
      [] i_error = "AccountAlreadyInitialized" -> 9
      [] i_error = "UninitializedAccount" -> 10
      [] OTHER -> 999

\* leaves the poll with the given result
PollReturns(outcome) == [poll EXCEPT !.pc = "done", !.outcome = outcome]

\* the variables no step of the poller writes
not_poll == <<strategies, fee_call, fee_reader, round, build, send,
              keepalive, trading>>

\* a relay client calls the poller; start = Instant::now() (lines 60-62)
CallPoll ==
    /\ poll.pc = "idle"
    /\ poll' = [NoPoll EXCEPT !.pc = "check_timeout"]
    /\ UNCHANGED not_poll

\* lines 65-67
CheckTimeout ==
    /\ poll.pc = "check_timeout"
    /\ poll' = IF poll.elapsed >= PollTimeoutSecs
               THEN PollReturns("TimedOut")
               ELSE [poll EXCEPT !.pc = "status",
                                 !.iterations = @ + 1,
                                 !.status = None, !.details = NotAsked]
    /\ UNCHANGED not_poll

\* lines 69-82: the status query takes some time; its error is passed on by
\* the `?`
StatusQuery ==
    /\ poll.pc = "status"
    /\ \E took \in 0..MaxRpcSecs :
         \/ poll' = [PollReturns("RpcError") EXCEPT !.elapsed = @ + took]
         \/ \E status \in SignatureStatuses :
                poll' = IF status_confirmed(status)
                        THEN [PollReturns("Confirmed") EXCEPT
                                 !.elapsed = @ + took, !.status = status]
                        ELSE [poll EXCEPT !.pc = "details",
                                          !.elapsed = @ + took,
                                          !.status = status]
    /\ UNCHANGED not_poll

\* lines 84-167
DetailsQuery ==
    /\ poll.pc = "details"
    /\ \E took \in 0..MaxRpcSecs, details \in TransactionDetails :
           poll' =
               IF details.kind \in {"Err", "NoMeta"}
               THEN [poll EXCEPT !.pc = "sleep", !.elapsed = @ + took,
                                 !.details = details]
               ELSE IF details.err = NoTransactionError
               THEN [PollReturns("Confirmed") EXCEPT
                        !.elapsed = @ + took, !.details = details]
               ELSE [PollReturns("Failed") EXCEPT
                        !.elapsed = @ + took, !.details = details,
                        !.code = IF details.err.kind = "InstructionError"
                                 THEN error_code(details.err.category,
                                                 details.err.custom)
                                 ELSE 0,
                        !.instruction =
                            IF details.err.kind = "InstructionError"
                            THEN Some(details.err.index) ELSE None]
    /\ UNCHANGED not_poll

\* sleep(interval).await (lines 98 and 105)
PollSleep ==
    /\ poll.pc = "sleep"
    /\ poll' = [poll EXCEPT !.pc = "check_timeout",
                            !.elapsed = @ + PollIntervalSecs]
    /\ UNCHANGED not_poll

\* the caller has the answer and the next poll can start
NextPoll ==
    /\ poll.pc = "done"
    /\ poll' = NoPoll
    /\ UNCHANGED not_poll

PollNext ==
    \/ CallPoll
    \/ CheckTimeout
    \/ StatusQuery
    \/ DetailsQuery
    \/ PollSleep
    \/ NextPoll

PollSpec == FeeInit /\ [][PollNext]_vars

\* =============================================================== keepalive
\* The relay clients that start a ping task in their constructor:
\* swqos/astralane.rs, swqos/temporal.rs and swqos/stellium.rs.  new()
\* builds the client, clones it and spawns a task that calls
\* start_ping_task on the clone; start_ping_task spawns the ping loop and
\* returns, and the clone is dropped at the end of the spawned task.  The
\* clone shares the AtomicBool (and the ping_handle) through its Arc fields,
\* and Drop runs for the clone as for the client.

KeepaliveClients == {"Astralane", "Temporal", "Stellium"}

\* clients that keep the JoinHandle of the ping loop and abort it in Drop
HasHandle(client) == client \in {"Astralane", "Temporal"}

\* the value the AtomicBool is constructed with: stop_ping false
\* (astralane.rs line 73, temporal.rs line 99), keep_alive_running true
\* (stellium.rs line 65)
InitialFlag(client) == client = "Stellium"

\* what Drop stores in it: stop_ping true (astralane.rs line 213,
\* temporal.rs line 235), keep_alive_running false (stellium.rs line 190)
DroppedFlag(client) == client # "Stellium"

\* impl Drop: the store, and for the clients with a handle the spawn of the
\* task that will abort the ping loop
Dropped(k) ==
    [k EXCEPT !.flag = DroppedFlag(k.client),
              !.aborts = IF HasHandle(k.client) THEN @ + 1 ELSE @]

PingRunning(k) == k.task \in {"tick", "check", "ping"}

\* the variables no step of a client's keepalive writes
not_keepalive == <<strategies, fee_call, fee_reader, round, build, send,
                   poll, trading>>

\* new(): the client is built and returned, the task that will start the
\* ping loop is spawned
NewClient ==
    /\ keepalive = NoKeepalive
    /\ \E client \in KeepaliveClients :
           keepalive' = [NoKeepalive EXCEPT
                            !.client = client, !.owner = "alive",
                            !.flag = InitialFlag(client),
                            !.starter = "spawned"]
    /\ UNCHANGED not_keepalive

\* start_ping_task spawns the ping loop (astralane.rs line 92, temporal.rs
\* line 118, stellium.rs line 91)
SpawnPingLoop ==
    /\ keepalive.starter = "spawned"
    /\ keepalive' = [keepalive EXCEPT !.starter = "store", !.task = "tick"]
    /\ UNCHANGED not_keepalive

\* start_ping_task stores the handle under the mutex (astralane.rs lines
\* 111-117, temporal.rs likewise); stellium.rs keeps none
StoreHandle ==
    /\ keepalive.starter = "store"
    /\ keepalive' = [keepalive EXCEPT
                        !.starter = "started",
                        !.handle = HasHandle(keepalive.client)]
    /\ UNCHANGED not_keepalive

\* the spawned task ends and its clone of the client is dropped
DropClone ==
    /\ keepalive.starter = "started"
    /\ keepalive' = [Dropped(keepalive) EXCEPT !.starter = "done"]
    /\ UNCHANGED not_keepalive

\* the client new() returned is dropped
DropClient ==
    /\ keepalive.owner = "alive"
    /\ keepalive' = [Dropped(keepalive) EXCEPT !.owner = "dropped"]
    /\ UNCHANGED not_keepalive

\* a task spawned by Drop runs: it aborts the ping loop whose handle is
\* stored and clears the handle (astralane.rs lines 218-224)
AbortPing ==
    /\ keepalive.aborts > 0
    /\ keepalive' = [keepalive EXCEPT
                        !.aborts = @ - 1,
                        !.handle = FALSE,
                        !.task = IF keepalive.handle /\ PingRunning(keepalive)
                                 THEN "aborted" ELSE @]
    /\ UNCHANGED not_keepalive

\* interval.tick().await returns
PingTick ==
    /\ keepalive.task = "tick"
    /\ keepalive' = [keepalive EXCEPT !.task = "check"]
    /\ UNCHANGED not_keepalive

\* if stop_ping.load(Relaxed) { break; } (astralane.rs line 98, temporal.rs
\* line 124, and stellium.rs line 97 on keep_alive_running)
PingCheck ==
    /\ keepalive.task = "check"
    /\ keepalive' = [keepalive EXCEPT
                        !.task = IF keepalive.flag THEN "stopped"
                                 ELSE "ping"]
    /\ UNCHANGED not_keepalive

\* the ping request is sent and the loop goes to its next tick
PingSend ==
    /\ keepalive.task = "ping"
    /\ keepalive' = [keepalive EXCEPT
                        !.task = "tick",
                        !.pings = IF @ < MaxPings THEN @ + 1 ELSE @,
                        !.pinged_dropped =
                            @ \/ keepalive.owner = "dropped"]
    /\ UNCHANGED not_keepalive

KeepaliveNext ==
    \/ NewClient
    \/ SpawnPingLoop
    \/ StoreHandle
    \/ DropClone
    \/ DropClient
    \/ AbortPing
    \/ PingTick
    \/ PingCheck
    \/ PingSend

KeepaliveSpec == FeeInit /\ [][KeepaliveNext]_vars

\* Every spawned task is scheduled, every tick arrives and every request
\* returns; the owner may keep its client for ever.
KeepaliveFairSpec ==
    /\ KeepaliveSpec
    /\ WF_vars(SpawnPingLoop)
    /\ WF_vars(StoreHandle)
    /\ WF_vars(DropClone)
    /\ WF_vars(AbortPing)
    /\ WF_vars(PingTick)
    /\ WF_vars(PingCheck)
    /\ WF_vars(PingSend)

\* ================================================================== facade
\* SolanaTrade::buy, SolanaTrade::sell and SolanaTrade::sell_by_percent of
\* lib.rs, up to the call of the executor's swap.

DexTypes == {"PumpFun", "PumpSwap", "Bonk", "RaydiumCpmm", "RaydiumAmmV4",
             "MeteoraDammV2", "MeteoraDlmm", "Orca", "RaydiumClmm", "Arb"}

\* the variants of the protocol parameters the validation downcasts to
ProtocolParams == DexTypes \ {"Arb"}

Mints == {"USD1", "SOL"}

\* u64, at the width WordBits
MaxWord == 2^WordBits - 1

InputAmounts == {0, 1, MaxWord}

TokenAmounts == {0, 1, 150, MaxWord \div 100, MaxWord \div 100 + 1, MaxWord}

Percents == {0, 1, 50, 100, 101}

\* the mint the USD1 check reads: input_mint in buy (line 410),
\* output_mint in sell (line 527)
checked_mint(t) == IF t.called = "buy" THEN t.input_mint ELSE t.output_mint

usd1_only_bonk(t) == checked_mint(t) = "USD1" /\ t.dex_type # "Bonk"

is_valid_params_any(dex_type, extension_params) == TRUE

\* the match of lines 453-478 (570-595 in sell) for a DEX other than Arb:
\* the downcast to the DEX's own variant succeeds
is_valid_params(dex_type, extension_params) == extension_params = dex_type

\* amount_token * percent / 100 in u64 (line 748): the set of outcomes of
\* the builds, with overflow checks (a panic) and without (wrap-around)
percent_amount(amount_token, percent) ==
    IF amount_token * percent <= MaxWord
    THEN {[panic |-> FALSE, amount |-> (amount_token * percent) \div 100]}
    ELSE {[panic |-> TRUE, amount |-> 0],
          [panic |-> FALSE,
           amount |-> ((amount_token * percent) % (MaxWord + 1)) \div 100]}

TradeReturns(t, outcome, reason) ==
    [t EXCEPT !.pc = "done", !.outcome = outcome, !.reason = reason]

not_trading == <<strategies, fee_call, fee_reader, round, build, send,
                 poll, keepalive>>

\* the caller's parameters
TradeParams(called) ==
    {[NoTrade EXCEPT !.pc = "usd1_check", !.entry = called,
                     !.called = called,
                     !.input_mint = i, !.output_mint = o, !.dex_type = x,
                     !.extension_params = p, !.input_token_amount = a] :
        i \in Mints, o \in Mints, x \in DexTypes, p \in ProtocolParams,
        a \in InputAmounts}

CallBuy ==
    /\ trading = NoTrade
    /\ trading' \in TradeParams("buy")
    /\ UNCHANGED not_trading

CallSell ==
    /\ trading = NoTrade
    /\ trading' \in TradeParams("sell")
    /\ UNCHANGED not_trading

CallSellByPercent ==
    /\ trading = NoTrade
    /\ \E params \in TradeParams("sell"), amount_token \in TokenAmounts,
          percent \in Percents :
          /\ params.input_token_amount # MaxWord
          /\ trading' = [params EXCEPT
                            !.pc = "percent_check",
                            !.entry = "sell_by_percent", !.called = "none",
                            !.amount_token = amount_token,
                            !.percent = percent]
    /\ UNCHANGED not_trading

\* lines 745-747
PercentCheck ==
    /\ trading.pc = "percent_check"
    /\ trading' = IF trading.percent = 0 \/ trading.percent > 100
                  THEN TradeReturns(trading, "Err",
                                    "Percentage must be between 1 and 100")
                  ELSE [trading EXCEPT !.pc = "percent_amount"]
    /\ UNCHANGED not_trading

\* lines 748-750: the amount is computed and sell is called with it
PercentAmount ==
    /\ trading.pc = "percent_amount"
    /\ \E r \in percent_amount(trading.amount_token, trading.percent) :
           trading' = IF r.panic
                      THEN [trading EXCEPT !.pc = "done",
                                           !.outcome = "panic"]
                      ELSE [trading EXCEPT !.pc = "usd1_check",
                                           !.called = "sell",
                                           !.input_token_amount = r.amount]
    /\ UNCHANGED not_trading

\* lines 410-414, 527-531
Usd1Check ==
    /\ trading.pc = "usd1_check"
    /\ trading' = IF usd1_only_bonk(trading)
                  THEN TradeReturns(trading, "Err", "only support USD1 on Bonk")
                  ELSE [trading EXCEPT !.pc = "zero_check"]
    /\ UNCHANGED not_trading

\* lines 416-420, 533-537
ZeroCheck ==
    /\ trading.pc = "zero_check"
    /\ trading' = IF trading.input_token_amount = 0
                  THEN TradeReturns(trading, "Err",
                                    "input_token_amount cannot be zero")
                  ELSE [trading EXCEPT !.pc = "create_executor"]
    /\ UNCHANGED not_trading

\* lines 422-450: the executor of the DEX is looked up and the swap
\* parameters are put together
CreateExecutor ==
    /\ trading.pc = "create_executor"
    /\ trading' = [trading EXCEPT !.pc = "validate",
                                  !.executor = trading.dex_type]
    /\ UNCHANGED not_trading

\* lines 452-482, 569-599
ValidateParams ==
    /\ trading.pc = "validate"
    /\ trading' =
           IF trading.dex_type = "Arb"
           THEN TradeReturns(trading, "Err", "not supported")
           ELSE IF ~is_valid_params(trading.dex_type,
                                    trading.extension_params)
           THEN TradeReturns(trading, "Err", "Invalid protocol params")
           ELSE [trading EXCEPT !.pc = "swap"]
    /\ UNCHANGED not_trading

\* lines 484-487, 601-605: executor.swap builds the instructions and runs
\* the submission round; its result is the call's
ExecutorSwap ==
    /\ trading.pc = "swap"
    /\ \E outcome \in {"Ok", "Err"} :
           trading' = [TradeReturns(trading, outcome, "swap")
                          EXCEPT !.swapped = TRUE]
    /\ UNCHANGED not_trading

NextTrade ==
    /\ trading.pc = "done"
    /\ trading' = NoTrade
    /\ UNCHANGED not_trading

TradeNext ==
    \/ CallBuy
    \/ CallSell
    \/ CallSellByPercent
    \/ PercentCheck
    \/ PercentAmount
    \/ Usd1Check
    \/ ZeroCheck
    \/ CreateExecutor
    \/ ValidateParams
    \/ ExecutorSwap
    \/ NextTrade

TradeSpec == FeeInit /\ [][TradeNext]_vars

\* ====================================================== planning a round
\* The planning of execute_parallel (lines 164-234) beside a thread that
\* calls the mutators of the fee table the round was handed: GasFeeStrategy
\* is a handle on the shared map (strategies: Arc<ArcSwap<..>>), so the
\* caller's other clones of it write the map the round reads.

\* PlanClient, keeping the table its get_strategies call loaded (line 188;
\* gas_fee_strategy.rs line 294); a client the filter of lines 184-186
\* drops makes no call
PlanClientLoad ==
    /\ pc = "plan"
    /\ plan_i <= Len(swqos_clients)
    /\ IF ClientEligible(with_tip, swqos_clients[plan_i])
       THEN /\ task_configs' =
                  task_configs
                  \o ClientConfigs(plan_i, swqos_clients[plan_i], strategies,
                                   is_buy, with_tip)
            /\ loaded_tables' = Append(loaded_tables, strategies)
       ELSE UNCHANGED <<task_configs, loaded_tables>>
    /\ plan_i' = plan_i + 1
    /\ UNCHANGED <<swqos_clients, with_tip, is_buy, durable_nonce,
                   wait_transaction_confirmed, strategies, fee_call,
                   fee_reader, build, send, poll, keepalive, trading,
                   writers, quic, syscall, pc, tasks, collector, w,
                   ret>>

PlanNext ==
    \/ CheckClients
    \/ PlanClientLoad
    \/ CheckConfigs
    \/ CallClear
    \/ CallUpdateBuyTip
    \/ RcuStep
    \/ CallReturn

PlanSpec == Init /\ [][PlanNext]_vars

\* ======================================================= two writers
\* Two threads that each make one call of a mutator on the same
\* GasFeeStrategy.  A mutator is its sequence of rcu calls; an rcu
\* (arc_swap's read-copy-update) loads the current map, applies the closure
\* to it and installs the result by compare-and-swap, starting again when
\* another writer has installed a map in between.

Writers == 1..2

\* the value thread t sets: its tip tells the threads apart
WriterValue(t) == FeeValue(1, 1, t, 0)

WriterKeys == FeeSwqosTypes \X TradeTypes \X GasFeeStrategyTypes

\* compare_and_swap that stores whatever the map has become
cas_blind(current, loaded, new) == new

\* compare_and_swap of the rcu loop: the new map is installed if the map is
\* still the one the closure was applied to
cas(current, loaded, new) == IF current = loaded THEN new ELSE current

\* the keys an rcu of a mutator writes
Touches(m, key) ==
    \/ m.op \in {"remove", "insert"}
       /\ key \in Keys(m.swqos_type, m.trade_type, m.strategy_types)
    \/ m.op \in {"update_tip", "update_cu_price"} /\ key[2] = m.trade_type
    \/ m.op = "store_empty"

Enter(t, name, key, value, ops) ==
    /\ writers' = [writers EXCEPT ![t] =
                      [pc |-> "load", name |-> name, key |-> key,
                       value |-> value, ops |-> ops, todo |-> ops,
                       loaded |-> EmptyTable]]
    /\ UNCHANGED <<strategies, fee_call, fee_reader, build, send, poll,
                   keepalive, trading, loaded_tables, quic, syscall,
                   swqos_clients,
                   with_tip, is_buy, durable_nonce,
                   wait_transaction_confirmed, pc, plan_i, task_configs,
                   tasks, collector, w, ret>>

WriterSet ==
    \E t \in Writers :
        /\ writers[t].pc = "idle"
        /\ \E key \in WriterKeys :
               Enter(t, "set", key, WriterValue(t),
                     set(key[1], key[2], key[3], WriterValue(t)))

WriterDel ==
    \E t \in Writers :
        /\ writers[t].pc = "idle"
        /\ \E key \in WriterKeys :
               Enter(t, "del", key, WriterValue(t),
                     del(key[1], key[2], key[3]))

WriterUpdateBuyTip ==
    \E t \in Writers :
        /\ writers[t].pc = "idle"
        /\ Enter(t, "update_tip", <<"none", "Buy", "none">>,
                 FeeValue(0, 0, UpdateTo, 0), update_buy_tip(UpdateTo))

WriterUpdateSellTip ==
    \E t \in Writers :
        /\ writers[t].pc = "idle"
        /\ Enter(t, "update_tip", <<"none", "Sell", "none">>,
                 FeeValue(0, 0, UpdateTo, 0), update_sell_tip(UpdateTo))

\* rcu: the load of the current map
WriterLoad ==
    \E t \in Writers :
        /\ writers[t].pc = "load"
        /\ writers[t].todo # <<>>
        /\ writers' = [writers EXCEPT ![t].pc = "swap",
                                      ![t].loaded = strategies]
        /\ UNCHANGED <<strategies, fee_call, fee_reader, build, send, poll,
                       keepalive, trading, loaded_tables, quic, syscall,
                   swqos_clients,
                       with_tip, is_buy, durable_nonce,
                       wait_transaction_confirmed, pc, plan_i, task_configs,
                       tasks, collector, w, ret>>

\* rcu: the closure's map is installed, or the rcu starts again
WriterSwap ==
    \E t \in Writers :
        /\ writers[t].pc = "swap"
        /\ strategies' = cas(strategies, writers[t].loaded,
                             Apply(writers[t].loaded, Head(writers[t].todo)))
        /\ writers' = [writers EXCEPT
                          ![t].pc = "load",
                          ![t].todo = IF strategies = writers[t].loaded
                                      THEN Tail(@) ELSE @]
        /\ UNCHANGED <<fee_call, fee_reader, build, send, poll,
                       keepalive, trading, loaded_tables, quic, syscall,
                   swqos_clients,
                       with_tip, is_buy, durable_nonce,
                       wait_transaction_confirmed, pc, plan_i, task_configs,
                       tasks, collector, w, ret>>

\* the mutator returns
WriterReturn ==
    \E t \in Writers :
        /\ writers[t].pc = "load"
        /\ writers[t].todo = <<>>
        /\ writers' = [writers EXCEPT ![t].pc = "returned"]
        /\ UNCHANGED <<strategies, fee_call, fee_reader, build, send, poll,
                       keepalive, trading, loaded_tables, quic, syscall,
                   swqos_clients,
                       with_tip, is_buy, durable_nonce,
                       wait_transaction_confirmed, pc, plan_i, task_configs,
                       tasks, collector, w, ret>>

WritersNext ==
    \/ WriterSet
    \/ WriterDel
    \/ WriterUpdateBuyTip
    \/ WriterUpdateSellTip
    \/ WriterLoad
    \/ WriterSwap
    \/ WriterReturn

\* the table the two calls find: any of the tables of a round
WritersInit ==
    /\ Init
    /\ swqos_clients = <<>>
    /\ with_tip /\ ~is_buy /\ ~wait_transaction_confirmed

WritersSpec == WritersInit /\ [][WritersNext]_vars

\* ======================================================= the claims
Direction == IF is_buy THEN "Buy" ELSE "Sell"

EmptyRosterMsg == "swqos_clients is empty"
NoDefaultMsg == "No Rpc Default Swqos configured."
NoConfigsMsg == "No available gas fee strategy configs"
NonceMsg == "Multiple swqos transactions require durable_nonce to be set."
NoSignatureMsg == "No transaction signature available"
AllFailedMsg == "All transactions failed"

\* the provider floors of src/constants/swqos.rs, in model units
Floor(swqos_type) ==
    IF swqos_type = "Node1" THEN SWQOS_MIN_TIP_NODE1 ELSE SWQOS_MIN_TIP_DEFAULT

\* a roster position and a fee-table entry that belong together: same
\* provider, the round's direction
Pairs == {p \in (1..Len(swqos_clients)) \X DOMAIN strategies :
             /\ p[2][1] = swqos_clients[p[1]]
             /\ p[2][2] = Direction}

BelowFloor(p) ==
    /\ with_tip
    /\ swqos_clients[p[1]] # "Default"
    /\ strategies[p[2]].tip < Floor(swqos_clients[p[1]])

\* the (relay, strategy) pairs that survive eligibility and the tip floor
Surviving == {p \in Pairs :
                 /\ with_tip \/ swqos_clients[p[1]] = "Default"
                 /\ ~BelowFloor(p)}

\* the flat_map is over and neither roster check returned
Planned == pc \notin {"start", "plan"} /\ ret.msg \notin {EmptyRosterMsg, NoDefaultMsg}

\* the spawn loop is over
Spawned == Planned /\ pc # "spawn" /\ ret.msg \notin {NoConfigsMsg, NonceMsg}

ConfigsFor(p) == {n \in 1..Len(task_configs) :
                     task_configs[n].i = p[1] /\ task_configs[n].strategy = p[2][3]}
TasksFor(p) == {t \in 1..Len(tasks) :
                   /\ tasks[t].i = p[1]
                   /\ tasks[t].tip = strategies[p[2]].tip
                   /\ task_configs[t].strategy = p[2][3]}

NothingSpawned == tasks = <<>> /\ results = <<>> /\ completed_count = 0

\* C3: a Buy with more than one surviving (relay, strategy) pair and no
\* durable nonce is refused before any task is spawned or anything is sent,
\* and the refusal is given exactly when all three conditions hold.
C3_NonceGuard ==
    Planned =>
        LET refused == is_buy /\ ~durable_nonce /\ Cardinality(Surviving) > 1
        IN /\ (ret.msg = NonceMsg) <=> refused
           /\ refused =>
                 /\ pc = "done"
                 /\ ret.kind = "Err"
                 /\ NothingSpawned

C3_Witness ==
    /\ pc = "done"
    /\ ret.msg = NonceMsg
    /\ Cardinality(Surviving) = 2

\* C4: with tipping on, an entry of a non-Default provider whose tip is below
\* the provider's floor yields no task, a provider whose only entry is below
\* the floor gets no task at all, and every other entry yields exactly one
\* task for each client of its provider.
C4_MinTipFilter ==
    (with_tip /\ Planned) =>
        LET pairs == Pairs
            surviving == {p \in pairs : ~BelowFloor(p)}
        IN /\ \A p \in pairs :
                  Cardinality(ConfigsFor(p)) = IF BelowFloor(p) THEN 0 ELSE 1
           /\ Len(task_configs) = Cardinality(surviving)
           /\ Spawned =>
                 /\ Len(tasks) = Cardinality(surviving)
                 /\ \A p \in pairs :
                        Cardinality(TasksFor(p)) = IF BelowFloor(p) THEN 0 ELSE 1
                 /\ \A n \in 1..Len(swqos_clients) :
                        (\A p \in pairs : p[1] = n => BelowFloor(p))
                            => ~\E t \in 1..Len(tasks) : tasks[t].i = n

\* Node1's only entry (tip 1) is below its floor of 200 and Node1 gets no
\* task, while Jito's entry at its floor of 1 gets one.
C4_Witness ==
    /\ with_tip
    /\ Spawned
    /\ \E n \in 1..Len(swqos_clients) :
          /\ swqos_clients[n] = "Node1"
          /\ \E p \in Pairs : p[1] = n
          /\ \A p \in Pairs : p[1] = n => BelowFloor(p)
          /\ ~\E t \in 1..Len(tasks) : tasks[t].i = n
    /\ \E t \in 1..Len(tasks) :
          tasks[t].swqos_type = "Jito" /\ tasks[t].tip = Floor("Jito")

HasDefault == \E n \in 1..Len(swqos_clients) : swqos_clients[n] = "Default"

\* C5: with tipping off, a roster without a Default client is refused with
\* nothing spawned; otherwise only Default clients get tasks.
C5_NoTipNeedsDefault ==
    ~with_tip =>
        /\ ~HasDefault =>
              /\ NothingSpawned /\ task_configs = <<>>
              /\ pc \in {"start", "done"}
              /\ pc = "done" => ret.kind = "Err"
        /\ \A n \in 1..Len(task_configs) :
              swqos_clients[task_configs[n].i] = "Default"
        /\ \A t \in 1..Len(tasks) :
              /\ tasks[t].swqos_type = "Default"
              /\ swqos_clients[tasks[t].i] = "Default"
        /\ Spawned =>
              \A p \in Pairs : swqos_clients[p[1]] = "Default"
                                  => Cardinality(TasksFor(p)) = 1

\* a roster of a relay and the direct provider: the direct provider alone
\* got a task
C5_Witness ==
    /\ ~with_tip
    /\ Spawned
    /\ \E n \in 1..Len(swqos_clients) : swqos_clients[n] # "Default"
    /\ Len(tasks) = 1
    /\ tasks[1].swqos_type = "Default"

Pushed(t) == tasks[t].pc \in {"flag", "count", "done"}

\* C6: an empty roster, or a round whose filtering and expansion leave no
\* (relay, strategy) pair, ends in an error at once, with nothing spawned;
\* and Ok is returned only for a round in which some task reported.
C6_NothingToSubmit ==
    /\ (swqos_clients = <<>> \/ Surviving = {}) =>
          /\ NothingSpawned
          /\ pc \in {"start", "plan", "done"}
          /\ pc = "done" => ret.kind = "Err"
    /\ ret.kind = "Ok" => \E t \in 1..Len(tasks) : Pushed(t)

\* a non-empty roster none of whose clients has a usable entry
C6_Witness ==
    /\ pc = "done"
    /\ swqos_clients # <<>>
    /\ Pairs # {}
    /\ Surviving = {}
    /\ ret.msg = NoConfigsMsg

Range(seq) == {seq[n] : n \in 1..Len(seq)}

Waiting == pc \in {"wait_flag", "drain_flag", "wait_count", "drain_count",
                   "wait_timeout"}

\* C7: without waiting for confirmation the call answers after the grace
\* period whatever the tasks are doing: Ok with what the collector holds if
\* some task has reported, an error if none has.
C7_NoWaitReturns ==
    /\ [][(pc = "get_first" /\ pc' = "done") =>
            /\ (ret'.kind = "Ok") <=> (\E t \in 1..Len(tasks) : Pushed(t))
            /\ ret'.kind = "Err" => ret'.msg = NoSignatureMsg
            /\ ret'.kind = "Ok" =>
                  /\ Len(ret'.signatures) =
                        Cardinality({t \in 1..Len(tasks) : Pushed(t)})
                  /\ \A t \in 1..Len(tasks) :
                        Pushed(t) => tasks[t].signature \in Range(ret'.signatures)
                  /\ ret'.success <=>
                        \E t \in 1..Len(tasks) : Pushed(t) /\ tasks[t].success]_vars
    /\ [](pc \in {"sleep", "get_first"} =>
            ENABLED (Sleep \/ GetFirstPop \/ GetFirstReturn))

\* the call answered Ok with one failed result while the other task was
\* still sending
C7_Witness ==
    /\ pc = "done"
    /\ ~wait_transaction_confirmed
    /\ ret.kind = "Ok"
    /\ ~ret.success
    /\ Len(ret.signatures) = 1
    /\ \E t \in 1..Len(tasks) : tasks[t].pc = "send"

\* C10: an Ok result is success=true with at least one signature, one of
\* them of a task whose send_transaction returned Ok, or success=false with a
\* last error.
C10_OkShape ==
    ret.kind = "Ok" =>
        \/ /\ ret.success
           /\ ret.signatures # <<>>
           /\ \E t \in 1..Len(tasks) :
                 /\ tasks[t].sent /\ tasks[t].success
                 /\ tasks[t].signature \in Range(ret.signatures)
        \/ /\ ~ret.success
           /\ ret.last_error # NoError
           /\ \E t \in 1..Len(tasks) :
                 ~tasks[t].success /\ tasks[t].error = ret.last_error

\* success=true with the signatures of a task that sent and of one that failed
C10_Witness ==
    /\ ret.kind = "Ok"
    /\ ret.success
    /\ Len(ret.signatures) = 2
    /\ \E t \in 1..Len(tasks) : Pushed(t) /\ ~tasks[t].success

\* task t has come back from submit with success=true
SubmittedOk(t) == t <= Len(tasks) /\ tasks[t].pc = "done" /\ tasks[t].success

WonBy(r, t) ==
    /\ r.kind = "Ok"
    /\ r.success
    /\ tasks[t].signature \in Range(r.signatures)

\* C1, as claimed: whenever the waiting call returns after a task has
\* submitted a result with success=true, it returns Ok with success=true and
\* that task's signature.
C1_AsClaimed ==
    [][(Waiting /\ pc' = "done") =>
          \A t \in 1..Len(tasks) : SubmittedOk(t) => WonBy(ret', t)]_vars

\* C1, amended: once a task has submitted success=true the waiting call
\* returns, whatever the other tasks do; the waiter's next check of the
\* success flag starts the drain, the drain ends in Ok with success=true, no
\* last error and that task's signature, and so does every return that is not
\* the ceiling's.  Only a ceiling check that comes before the next flag check
\* answers instead with the timeout error.
C1_FirstSuccessWins ==
    /\ \A t \in 1..MaxTasks :
          [](Waiting /\ SubmittedOk(t) => <>(pc = "done"))
    /\ [][(pc = "wait_flag" /\ pc' # pc /\ success_flag) => pc' = "drain_flag"]_vars
    /\ [][(pc = "drain_flag" /\ pc' # pc) =>
            /\ pc' = "done"
            /\ ret' = Ok(<<TRUE, ret'.signatures, NoError>>)]_vars
    /\ [][(Waiting /\ pc' = "done" /\ pc # "wait_timeout") =>
            \A t \in 1..Len(tasks) : SubmittedOk(t) => WonBy(ret', t)]_vars

\* the call returned task 2's success while task 1 was still sending
C1_Witness ==
    /\ pc = "done"
    /\ wait_transaction_confirmed
    /\ Len(tasks) = 2
    /\ tasks[1].pc = "send"
    /\ SubmittedOk(2)
    /\ WonBy(ret, 2)

AllFailed ==
    /\ tasks # <<>>
    /\ \A t \in 1..Len(tasks) : tasks[t].pc = "done" /\ ~tasks[t].success

AllFailedResult(r) ==
    /\ r.kind = "Ok"
    /\ ~r.success
    /\ Len(r.signatures) = Len(tasks)
    /\ \A t \in 1..Len(tasks) : tasks[t].signature \in Range(r.signatures)
    /\ r.last_error # NoError
    /\ \E t \in 1..Len(tasks) : tasks[t].error = r.last_error

\* C2, as claimed: whenever the waiting call returns after every spawned task
\* has reported a failure, it returns Ok with success=false, the signatures
\* collected and the error of one of the tasks.
C2_AsClaimed ==
    [][(Waiting /\ pc' = "done" /\ AllFailed) => AllFailedResult(ret')]_vars

\* C2, amended: when every spawned task has reported a failure, the waiter's
\* next check of the completed count starts the final drain, which ends in Ok
\* with success=false, every task's signature and the error of one of the
\* tasks, and so does every return that is not the ceiling's; the call does
\* not go on waiting.  Only a ceiling check that comes before the next count
\* check answers instead with the timeout error.
C2_AllFailAggregation ==
    /\ [](Waiting /\ AllFailed => <>(pc = "done"))
    /\ [][(pc = "wait_count" /\ pc' # pc /\ completed_count >= total_tasks)
            => pc' = "drain_count"]_vars
    /\ [][(pc = "drain_count" /\ pc' # pc /\ AllFailed) =>
            pc' = "done" /\ AllFailedResult(ret')]_vars
    /\ [][(Waiting /\ pc' = "done" /\ pc # "wait_timeout" /\ AllFailed)
            => AllFailedResult(ret')]_vars

\* two tasks failed, one at build and one at send, and the call returned both
\* signatures with an error
C2_Witness ==
    /\ pc = "done"
    /\ wait_transaction_confirmed
    /\ Len(tasks) = 2
    /\ AllFailed
    /\ AllFailedResult(ret)
    /\ \E t \in 1..Len(tasks) : tasks[t].signature = DefaultSignature
    /\ \E t \in 1..Len(tasks) : tasks[t].sent

NoSuccessReported == ~\E t \in 1..Len(tasks) : Pushed(t) /\ tasks[t].success

C9_TasksOutliveCaller ==
    /\ \A t \in 1..MaxTasks :
          []((pc = "done" /\ t <= Len(tasks)) =>
               <>(/\ t <= Len(tasks)
                  /\ tasks[t].pc = "done"
                  /\ tasks[t].signature # DefaultSignature => tasks[t].sent))
    /\ [](pc = "done" => <>(completed_count = Len(tasks)))
    /\ [](\A t \in 1..Len(tasks) :
            tasks[t].pc # "done" /\ pc = "done" => ENABLED TaskStep(t))

\* after the call had returned through the no-wait path, a task sent its
\* transaction and left its result in the collector
C9_Witness ==
    /\ pc = "done"
    /\ ~wait_transaction_confirmed
    /\ ret.kind = "Err"
    /\ results # <<>>
    /\ \E t \in 1..Len(tasks) :
          /\ tasks[t].pc = "done"
          /\ tasks[t].sent
          /\ results[1] = TaskResult(tasks[t])

\* the call returns Ok in this step
ReturnsOk == pc # "done" /\ pc' = "done" /\ ret'.kind = "Ok"

PushedTasks == {t \in 1..Len(tasks) : Pushed(t)}

C12_AsClaimed ==
    ret.kind = "Ok" =>
        \A a, b \in 1..Len(ret.signatures) :
            (/\ a < b
             /\ ret.signatures[a] # DefaultSignature
             /\ ret.signatures[b] # DefaultSignature)
                => tasks[ret.signatures[a]].i <= tasks[ret.signatures[b]].i

\* C13 as claimed: a result with success=true carries no last error.
C13_AsClaimed ==
    (ret.kind = "Ok" /\ ret.success) => ret.last_error = NoError

\* the variants a (provider, direction) pair holds in a table
Variants(table, swqos_type, trade_type) ==
    {ty \in GasFeeStrategyTypes : <<swqos_type, trade_type, ty>> \in DOMAIN table}

HighLow == {"LowTipHighCuPrice", "HighTipLowCuPrice"}

\* the mutator in progress has made its last rcu and is about to return
Completed(name) == fee_call.name = name /\ fee_call.todo = <<>>

\* C14: whatever calls of the mutators were made one after the other, and at
\* every point within them, no (provider, direction) pair holds a Normal
\* entry together with a LowTipHighCuPrice or HighTipLowCuPrice entry.
C14_Exclusive ==
    \A swqos_type \in SwqosTypes, trade_type \in TradeTypes :
        LET held == Variants(strategies, swqos_type, trade_type)
        IN ~("Normal" \in held /\ held \cap HighLow # {})

\* set of a high/low variant has completed on a pair that held Normal, and
\* set of Normal on a pair that held both high/low variants
C14_Witness ==
    /\ Completed("set")
    /\ \E trade_type \in fee_call.trade_types :
          LET was == Variants(fee_call.before, fee_call.swqos_type, trade_type)
              held == Variants(strategies, fee_call.swqos_type, trade_type)
          IN /\ held = {fee_call.arg}
             /\ \/ fee_call.arg \in HighLow /\ was = {"Normal"}
                \/ fee_call.arg = "Normal" /\ was = HighLow

\* C15 as claimed: between calls, every pair that has an entry holds exactly
\* Normal or exactly the two high/low variants.
C15_AsClaimed ==
    fee_call = NoCall =>
        \A swqos_type \in SwqosTypes, trade_type \in TradeTypes :
            Variants(strategies, swqos_type, trade_type)
                \in {{}, {"Normal"}, HighLow}

\* C15: a pair holds nothing, exactly Normal, or one or both of the
\* high/low variants; set_high_low_fee_strategy leaves a relay's pair with
\* exactly the two high/low variants (and the direct provider's untouched),
\* set_normal_fee_strategy leaves both directions with exactly Normal; the
\* table leaves the shapes "nothing, Normal, both high/low" only by a set or
\* a del of one high/low variant.
C15_PairShapes ==
    /\ \A swqos_type \in SwqosTypes, trade_type \in TradeTypes :
          Variants(strategies, swqos_type, trade_type)
              \in {{}, {"Normal"}} \cup (SUBSET HighLow)
    /\ Completed("set_high_low_fee_strategy") =>
          \A trade_type \in fee_call.trade_types :
              IF fee_call.swqos_type = "Default"
              THEN strategies = fee_call.before
              ELSE Variants(strategies, fee_call.swqos_type, trade_type) = HighLow
    /\ Completed("set_normal_fee_strategy") =>
          \A trade_type \in TradeTypes :
              Variants(strategies, fee_call.swqos_type, trade_type) = {"Normal"}
    /\ (/\ fee_call # NoCall
        /\ fee_call.todo = <<>>
        /\ \A swqos_type \in SwqosTypes, trade_type \in TradeTypes :
              Variants(fee_call.before, swqos_type, trade_type)
                  \in {{}, {"Normal"}, HighLow}
        /\ \E swqos_type \in SwqosTypes, trade_type \in TradeTypes :
              Variants(strategies, swqos_type, trade_type)
                  \notin {{}, {"Normal"}, HighLow})
         => /\ fee_call.name \in {"set", "del"}
            /\ fee_call.arg \in HighLow

\* set_high_low_fee_strategy has completed on a pair that held Normal, while
\* the provider's other direction holds the low-tip variant alone, left there
\* by an earlier call
C15_Witness ==
    /\ Completed("set_high_low_fee_strategy")
    /\ fee_call.swqos_type # "Default"
    /\ \E trade_type \in fee_call.trade_types :
          /\ Variants(fee_call.before, fee_call.swqos_type, trade_type) = {"Normal"}
          /\ Variants(strategies, fee_call.swqos_type, trade_type) = HighLow
    /\ \E trade_type \in TradeTypes :
          Variants(strategies, fee_call.swqos_type, trade_type)
              = {"LowTipHighCuPrice"}

\* get_strategies loads the map in this step
Loads == fee_reader.pc = "idle" /\ fee_reader'.pc = "loaded"

\* what get_strategies returns for one provider from a map
Observed(table, swqos_type, trade_type) ==
    StrategiesOf(table, trade_type, swqos_type, 1)

\* C16 as claimed: a get_strategies that loads the map while a
\* strategy-setting call is in progress gets, for the pair the call is
\* about, the entries as they were before the call or as they are after it.
C16_AsClaimed ==
    [][(/\ Loads
        /\ fee_call.name \in {"set", "set_high_low_fee_strategy",
                              "set_normal_fee_strategy"}
        /\ fee_reader'.trade_type \in fee_call.trade_types)
         => LET seen == Observed(fee_reader'.loaded, fee_call.swqos_type,
                                 fee_reader'.trade_type)
                old == Observed(fee_call.before, fee_call.swqos_type,
                                fee_reader'.trade_type)
                new == Observed(ApplyAll(strategies, fee_call.todo),
                                fee_call.swqos_type, fee_reader'.trade_type)
            IN seen \in {old, new}]_vars

\* C17: get_strategies loads the map once and returns exactly the entries
\* of the requested direction of the map it loaded, whatever swaps a writer
\* makes while it runs; each of its steps can be taken whatever the writer
\* is doing, and each rcu of a writer whatever the reader is doing.
C17_OneVersion ==
    /\ [][Loads => fee_reader'.loaded = strategies]_vars
    /\ [][fee_reader.pc \in {"loaded", "keys", "done"}
              => fee_reader'.pc = "idle"
                    \/ fee_reader'.loaded = fee_reader.loaded]_vars
    /\ [](fee_reader.pc = "done" =>
              fee_reader.result
                  = get_strategies(fee_reader.loaded, fee_reader.trade_type))
    /\ [](fee_reader.pc = "idle" => ENABLED ReaderLoad)
    /\ [](fee_reader.pc = "loaded" => ENABLED ReaderKeys)
    /\ [](fee_reader.pc = "keys" => ENABLED ReaderCollect)
    /\ [](fee_call.todo # <<>> => ENABLED RcuStep)

\* get_strategies is about to return entries of the map it loaded although a
\* writer has swapped the map since and is in the middle of a call
C17_Witness ==
    /\ fee_reader.pc = "done"
    /\ fee_reader.result # <<>>
    /\ fee_reader.loaded # strategies
    /\ fee_reader.result # get_strategies(strategies, fee_reader.trade_type)
    /\ fee_call.todo # <<>>

\* the table is the one before the call but for the tips of one direction
TipsSet(trade_type, tip) ==
    /\ DOMAIN strategies = DOMAIN fee_call.before
    /\ \A k \in DOMAIN strategies :
          strategies[k] = IF k[2] = trade_type
                          THEN [fee_call.before[k] EXCEPT !.tip = tip]
                          ELSE fee_call.before[k]

\* the table is the one before the call but for the compute unit prices of
\* one direction
CuPricesSet(trade_type, cu_price) ==
    /\ DOMAIN strategies = DOMAIN fee_call.before
    /\ \A k \in DOMAIN strategies :
          strategies[k] = IF k[2] = trade_type
                          THEN [fee_call.before[k] EXCEPT !.cu_price = cu_price]
                          ELSE fee_call.before[k]

\* C18: update_buy_tip(t) leaves the table as it was but for the tip of
\* every Buy entry, which is t: same keys, same cu_limit, cu_price and
\* data_size_limit, same Sell entries; and likewise update_sell_tip,
\* update_buy_cu_price and update_sell_cu_price for their field and direction.
C18_UpdateFrame ==
    /\ Completed("update_buy_tip") => TipsSet("Buy", fee_call.arg)
    /\ Completed("update_sell_tip") => TipsSet("Sell", fee_call.arg)
    /\ Completed("update_buy_cu_price") => CuPricesSet("Buy", fee_call.arg)
    /\ Completed("update_sell_cu_price") => CuPricesSet("Sell", fee_call.arg)

\* update_buy_tip has completed on a table with two Buy entries of different
\* compute unit prices and other tips, and a Sell entry
C18_Witness ==
    /\ Completed("update_buy_tip")
    /\ \E k1, k2 \in DOMAIN fee_call.before :
          /\ k1[2] = "Buy" /\ k2[2] = "Buy"
          /\ fee_call.before[k1].cu_price # fee_call.before[k2].cu_price
          /\ fee_call.before[k1].tip # fee_call.arg
          /\ strategies[k1].tip = fee_call.arg
    /\ \E k \in DOMAIN strategies :
          k[2] = "Sell" /\ strategies[k].tip # fee_call.arg


\* --------------------------------------------------------------- C19, C20
\* a build that returned its signed transaction
Built == build.pc \in {"returned", "done"} /\ build.outcome = "Ok"

IsBusiness(instruction) == instruction \in BusinessInstructions

\* the place of an instruction in the order the specification gives
RankAsSpecified(instruction) ==
    CASE instruction = "advance_nonce_account" -> 0
      [] instruction = "set_compute_unit_price" -> 1
      [] instruction = "set_compute_unit_limit" -> 2
      [] instruction = "transfer" -> 3
      [] OTHER -> 4

\* its place in the order of transaction_builder.rs
RankStandard(instruction) ==
    CASE instruction = "advance_nonce_account" -> 0
      [] instruction = "transfer" -> 1
      [] instruction = "set_compute_unit_price" -> 2
      [] instruction = "set_compute_unit_limit" -> 3
      [] OTHER -> 4

\* its place in the order of arb_transaction_builder.rs
RankArb(instruction) ==
    CASE instruction = "set_compute_unit_price" -> 0
      [] instruction = "set_compute_unit_limit" -> 1
      [] instruction = "transfer" -> 3
      [] OTHER -> 2

Count(instructions, instruction) ==
    Cardinality({i \in 1..Len(instructions) :
                     instructions[i] = instruction})

C20_AsClaimed ==
    (/\ build.pc \in {"returned", "done"}
     /\ ~build.recent_blockhash.some
     /\ ~Usable(build.durable_nonce))
        => (build.outcome = "Err" /\ ~build.sent)


\* --------------------------------------------------------------- C21, C22
\* C21 as stated: with confirmation waiting requested, send_transaction
\* returns Ok only after the poller has reported Confirmed for the signature
\* of the transaction it sent, on every path through the client.
C21_AsClaimed ==
    (/\ send.pc = "returned"
     /\ send.wait_confirmation
     /\ send.outcome = "Ok")
        => (send.polled = send.signature /\ send.poll_result = "Confirmed")

\* C22 as stated: when the vendor's response reports a rejection (an error
\* field or a body that does not parse), send_transaction returns an error
\* that carries the vendor's reason, and never Ok.
C22_AsClaimed ==
    (send.pc = "returned" /\ send.response \in {"error", "unparsable"})
        => (send.outcome = "Err" /\ send.reason = "vendor")


\* ---------------------------------------------------------- C25, C26, C27
PollDone == poll.pc = "done"

\* the transaction details the last query returned show the transaction
Visible(details) == details.kind = "Meta"

\* C25 as stated: every run of the poller ends in Confirmed, Failed or
\* TimedOut, after at most deadline/interval iterations, and a run that ends
\* in neither Confirmed nor Failed (status queries that keep failing
\* included) ends in TimedOut with the deadline elapsed.
C25_AsClaimed ==
    /\ poll.iterations <= PollTimeoutSecs \div PollIntervalSecs
    /\ PollDone =>
           /\ poll.outcome \in {"Confirmed", "Failed", "TimedOut"}
           /\ poll.outcome = "TimedOut" => poll.elapsed >= PollTimeoutSecs

\* C26: Confirmed is returned only on a signature status without error at
\* confirmed or finalized, or on visible details without execution error;
\* Failed only on visible details with an execution error; and a poll that
\* finds the transaction not visible returns neither: it sleeps and goes to
\* the next check of the deadline.
C26_OutcomeGrounds ==
    /\ (PollDone /\ poll.outcome = "Confirmed") =>
           \/ /\ poll.status.some
              /\ ~poll.status.value.err
              /\ poll.status.value.confirmation_status
                     \in {"confirmed", "finalized"}
           \/ /\ Visible(poll.details)
              /\ poll.details.err = NoTransactionError
    /\ (PollDone /\ poll.outcome = "Failed") =>
           /\ Visible(poll.details)
           /\ poll.details.err # NoTransactionError
    /\ poll.details.kind \in {"Err", "NoMeta"} =>
           /\ poll.outcome \in {"none", "TimedOut"}
           /\ poll.outcome = "none" => poll.pc \in {"sleep", "check_timeout"}

\* a run that found the transaction not visible, polled again and returned
\* Confirmed on details without error, its status being short of confirmed
C26_Witness ==
    /\ PollDone
    /\ poll.outcome = "Confirmed"
    /\ poll.iterations >= 2
    /\ poll.status.some
    /\ poll.status.value.confirmation_status = "processed"
    /\ Visible(poll.details)

\* C27: a visible instruction error is reported as Failed with the index of
\* the failing instruction and the code of its category: a custom program
\* error c gives c, insufficient funds 6, missing required signature 8, the
\* other listed categories their number from 1 to 10, an unlisted one 999.
\* A transaction error that is not an instruction error has code 0 and no
\* index.
C27_StableCode ==
    (PollDone /\ poll.outcome = "Failed") =>
        LET err == poll.details.err
        IN  IF err.kind = "InstructionError"
            THEN /\ poll.instruction = Some(err.index)
                 /\ err.category = "Custom" => poll.code = err.custom
                 /\ err.category = "GenericError" => poll.code = 1
                 /\ err.category = "InvalidArgument" => poll.code = 2
                 /\ err.category = "InvalidInstructionData" => poll.code = 3
                 /\ err.category = "InvalidAccountData" => poll.code = 4
                 /\ err.category = "AccountDataTooSmall" => poll.code = 5
                 /\ err.category = "InsufficientFunds" => poll.code = 6
                 /\ err.category = "IncorrectProgramId" => poll.code = 7
                 /\ err.category = "MissingRequiredSignature"
                        => poll.code = 8
                 /\ err.category = "AccountAlreadyInitialized"
                        => poll.code = 9
                 /\ err.category = "UninitializedAccount" => poll.code = 10
                 /\ err.category = "ProgramFailedToComplete"
                        => poll.code = 999
            ELSE poll.code = 0 /\ poll.instruction = None

\* a run that returned Failed for custom program error 6001 of the second
\* instruction
C27_Witness ==
    /\ PollDone
    /\ poll.outcome = "Failed"
    /\ poll.details.err.category = "Custom"
    /\ poll.code = 6001
    /\ poll.instruction = Some(1)


\* --------------------------------------------------------------- C23, C24
\* C23 as stated: once the client has been dropped, its ping task
\* eventually has stopped, under every interleaving.
C23_AsClaimed ==
    [](keepalive.owner = "dropped" => <>(~PingRunning(keepalive)
                                         /\ keepalive.starter = "done"))

\* C24 as stated: while the client the constructor returned is alive, the
\* ping task it started is neither stopped nor aborted.
C24_AsClaimed ==
    keepalive.owner = "alive" => keepalive.task \notin {"stopped", "aborted"}


\* --------------------------------------------------------------- C28, C29
\* the three cases of C28, for a call of buy or sell that has been entered
ZeroAmount(t) == t.input_token_amount = 0

Usd1NotBonk(t) ==
    /\ t.dex_type # "Bonk"
    /\ \/ t.called = "buy" /\ t.input_mint = "USD1"
       \/ t.called = "sell" /\ t.output_mint = "USD1"

VariantMismatch(t) == t.extension_params # t.dex_type

\* C28: a call of buy or sell with a zero input amount, with USD1 as its
\* currency on a DEX other than Bonk, or with protocol parameters of
\* another DEX's variant never reaches the executor's swap, and returns an
\* error.
C28_FailFast ==
    (/\ trading.called \in {"buy", "sell"}
     /\ ZeroAmount(trading) \/ Usd1NotBonk(trading)
                            \/ VariantMismatch(trading))
    => /\ ~trading.swapped
       /\ trading.pc # "swap"
       /\ trading.pc = "done" => trading.outcome = "Err"

C28_Witness ==
    /\ trading.pc = "done"
    /\ trading.called = "buy"
    /\ trading.outcome = "Err"
    /\ VariantMismatch(trading)
    /\ ~ZeroAmount(trading)
    /\ ~Usd1NotBonk(trading)
    /\ trading.dex_type # "Arb"

\* C29 as stated: sell_by_percent returns an error without calling sell for
\* a percent of 0 or above 100, and for a percent in 1..100 it calls sell
\* with floor(amount_token * percent / 100) whatever the amount.
C29_AsClaimed ==
    trading.entry = "sell_by_percent" /\ trading.pc \notin {"percent_check",
                                                            "percent_amount"}
    => IF trading.percent = 0 \/ trading.percent > 100
       THEN trading.called = "none" /\ trading.outcome = "Err"
       ELSE /\ trading.called = "sell"
            /\ trading.input_token_amount =
                   (trading.amount_token * trading.percent) \div 100


\* -------------------------------------------------------------------- C30
\* a result with success=true that task t has pushed
PushedSuccess(t) == tasks[t].success /\ tasks[t].pc \in {"flag", "count", "done"}

SuccessAvailable ==
    w.success \/ \E i \in 1..Len(results) : results[i].success

\* C30: the success flag is true only after some task has pushed a result
\* with success=true, and throughout the drain that the flag starts such a
\* result is in the queue or has already been popped by that drain, so the
\* drain ends having found one.
C30_FlagAfterPush ==
    /\ success_flag => \E t \in 1..Len(tasks) : PushedSuccess(t)
    /\ pc = "drain_flag" => success_flag /\ SuccessAvailable
    /\ pc = "drain_flag" /\ results = <<>> => w.success /\ w.signatures # <<>>

\* the drain started by the flag has popped a successful result while
\* another task has not submitted yet
C30_Witness ==
    /\ pc = "drain_flag"
    /\ w.success
    /\ results = <<>>
    /\ \E t \in 1..Len(tasks) : tasks[t].pc \in {"build", "send", "push"}


\* -------------------------------------------------------------------- C31
PushCount == Cardinality({t \in 1..Len(tasks) : Pushed(t)})

\* C31: throughout a round completed_count is at most the number of results
\* pushed so far, which is at most the number of spawned tasks, and no step
\* makes completed_count smaller.
C31_CountBounds ==
    /\ [](completed_count <= PushCount /\ PushCount <= Len(tasks))
    /\ [][completed_count' >= completed_count]_vars

\* one task has completed and the other has pushed and not yet counted, in a
\* round of two tasks
C31_Witness ==
    /\ completed_count = 1
    /\ PushCount = 2
    /\ Len(tasks) = 2


\* -------------------------------------------------------------------- C32
\* C32: in a round every result that left the queue is held by the one
\* drain pass that popped it; a pass that has popped a result is never left
\* to go on waiting, and the call that ends it returns Ok with the
\* signatures of exactly the results popped.
C32_DrainedOnce ==
    /\ Len(w.signatures) + Len(results) = PushCount
    /\ w.signatures # <<>> =>
          pc \in {"get_first", "drain_flag", "drain_count", "done"}
    /\ pc = "done" /\ w.signatures # <<>> =>
          /\ ret.kind = "Ok"
          /\ ret.signatures = w.signatures
          /\ ret.success = w.success

\* the drain on the completed count popped two failed results and returned
\* them
C32_Witness ==
    /\ pc = "done"
    /\ wait_transaction_confirmed
    /\ ret.kind = "Ok"
    /\ ~ret.success
    /\ Len(ret.signatures) = 2
    /\ results = <<>>


\* -------------------------------------------------------------------- C33
\* a task whose build_transaction returned an error
BuildFailed(task) ==
    task.pc \notin {"build", "send"} /\ task.signature = DefaultSignature

\* C33: a task calls send_transaction only with the signed transaction its
\* build returned, and a task whose build failed never sends and submits
\* success=false with the default signature and the build's error.
C33_BuildBeforeSend ==
    /\ \A t \in 1..Len(tasks) :
          /\ tasks[t].pc = "build" => ~tasks[t].sent
          /\ tasks[t].pc = "send" \/ tasks[t].sent =>
                tasks[t].signature # DefaultSignature
          /\ BuildFailed(tasks[t]) =>
                ~tasks[t].sent /\ ~tasks[t].success /\ tasks[t].error # NoError
    /\ \A i \in 1..Len(results) :
          results[i].signature = DefaultSignature =>
              ~results[i].success /\ results[i].error # NoError

\* one task's build failed and its result is in the queue while the other
\* task has sent
C33_Witness ==
    /\ Len(tasks) = 2
    /\ BuildFailed(tasks[1])
    /\ tasks[2].sent
    /\ \E i \in 1..Len(results) : results[i].signature = DefaultSignature

C35_AsClaimed ==
    (pc = "plan" /\ plan_i > Len(swqos_clients) /\ loaded_tables # <<>>)
    => \E n \in 1..Len(loaded_tables) :
          task_configs = PlannedFrom(1, swqos_clients, loaded_tables[n],
                                     is_buy, with_tip)


\* -------------------------------------------------------------- C36, C37
BothReturned == \A t \in Writers : writers[t].pc = "returned"

\* C36 as stated: after a set of the Normal variant and a set of a high/low
\* variant on the same provider and direction have both returned, the pair
\* does not hold Normal together with a high/low entry.
C36_AsClaimed ==
    \A a \in Writers, b \in Writers :
        (/\ BothReturned
         /\ writers[a].name = "set" /\ writers[b].name = "set"
         /\ writers[a].key[3] = "Normal" /\ writers[b].key[3] \in HighLow
         /\ writers[a].key[1] = writers[b].key[1]
         /\ writers[a].key[2] = writers[b].key[2])
        => ~(/\ writers[a].key \in DOMAIN strategies
             /\ \E ty \in HighLow :
                   <<writers[a].key[1], writers[a].key[2], ty>>
                       \in DOMAIN strategies)

\* what the call of a writer leaves in the table
EffectPresent(c) ==
    CASE c.name = "set" ->
           c.key \in DOMAIN strategies /\ strategies[c.key] = c.value
      [] c.name = "del" -> c.key \notin DOMAIN strategies
      [] c.name = "update_tip" ->
           \A k \in DOMAIN strategies :
               k[2] = c.key[2] => strategies[k].tip = c.value.tip

TouchesKey(c, key) == \E n \in 1..Len(c.ops) : Touches(c.ops[n], key)

\* C37: after a set on a key and a concurrent set, del or update that does
\* not write that key have both returned, the table holds the value set and
\* what the other call did.
C37_NoLostUpdate ==
    \A a \in Writers, b \in Writers :
        (/\ a # b
         /\ BothReturned
         /\ writers[a].name = "set"
         /\ ~TouchesKey(writers[b], writers[a].key))
        => /\ EffectPresent(writers[a])
           /\ EffectPresent(writers[b])

\* a set and a del on the other direction have both returned after one of
\* them had to start its rcu again
C37_Witness ==
    /\ BothReturned
    /\ writers[1].name = "set"
    /\ writers[2].name = "del"
    /\ writers[1].key[2] # writers[2].key[2]
    /\ writers[2].key \in DOMAIN NormalTable
    /\ writers[2].loaded # writers[1].loaded


\* ====================================================== a task's build
\* The build a submission task asks for (async_executor.rs lines 262-283),
\* run step by step through build_transaction.  The builds of the tasks of
\* a round share nothing, so one is followed at a time; the round is followed
\* up to the return of each build.

\* every provider is handed a tip transfer
build_with_tip_always(swqos_type) == TRUE

\* line 277: the with_tip argument of build_transaction
build_with_tip(swqos_type) == swqos_type # "Default"

\* line 262: let tip_amount = if with_tip { tip } else { 0.0 }
task_tip_amount(tipping, tip) == IF tipping THEN tip ELSE 0

\* lines 265-281: the call; the instructions and the blockhash of the round
\* are drawn, and so is the nonce of a round that has one
TaskCallBuild ==
    \E t \in 1..Len(tasks) :
        /\ tasks[t].pc = "build"
        /\ build = NoBuild
        /\ \E business_instructions \in BusinessLists,
              recent_blockhash \in RecentBlockhashes,
              nonce \in IF durable_nonce THEN DurableNonces \ {None}
                        ELSE {None} :
               build' = [NoBuild EXCEPT
                   !.builder = "standard", !.pc = "add_nonce",
                   !.unit_limit = task_configs[t].value.cu_limit,
                   !.unit_price = task_configs[t].value.cu_price,
                   !.business_instructions = business_instructions,
                   !.recent_blockhash = recent_blockhash,
                   !.with_tip = build_with_tip(tasks[t].swqos_type),
                   !.tip_amount = task_tip_amount(with_tip, tasks[t].tip),
                   !.durable_nonce = nonce]
        /\ tasks' = [tasks EXCEPT ![t].pc = "building"]
        /\ UNCHANGED <<swqos_clients, with_tip, is_buy, durable_nonce,
                       wait_transaction_confirmed, strategies, fee_call,
                       fee_reader, outer, pc, plan_i, task_configs,
                       collector, w, ret>>

\* lines 282-295: the build has come back to the task
TaskBuildReturns ==
    \E t \in 1..Len(tasks) :
        /\ tasks[t].pc = "building"
        /\ build.pc = "returned"
        /\ build' = NoBuild
        /\ tasks' = [tasks EXCEPT ![t].pc = "returned"]
        /\ UNCHANGED <<swqos_clients, with_tip, is_buy, durable_nonce,
                       wait_transaction_confirmed, strategies, fee_call,
                       fee_reader, outer, pc, plan_i, task_configs,
                       collector, w, ret>>

TipNext ==
    \/ CheckClients
    \/ PlanClient
    \/ CheckConfigs
    \/ SpawnTask
    \/ TaskCallBuild
    \/ AddNonce
    \/ AddTip
    \/ AddComputeBudget
    \/ AddBusiness
    \/ GetBlockhash
    \/ BuildVersioned
    \/ TaskBuildReturns

TipSpec == Init /\ [][TipNext]_vars

HasTipTransfer ==
    \E n \in 1..Len(build.instructions) : build.instructions[n] = "transfer"

\* C38: the transaction built for a task of the Default provider holds no
\* tip transfer, whatever tip its fee entry carries, and in a round with
\* tipping disabled the transaction of no task holds one.
C38_NoTipTransfer ==
    \A t \in 1..Len(tasks) :
        (/\ tasks[t].pc = "building"
         /\ tasks[t].swqos_type = "Default" \/ ~with_tip)
        => ~HasTipTransfer

\* a Default task whose fee entry carries a tip, in a tipping round, with
\* its transaction built
C38_Witness ==
    \E t \in 1..Len(tasks) :
        /\ tasks[t].pc = "building"
        /\ tasks[t].swqos_type = "Default"
        /\ tasks[t].tip > 0
        /\ with_tip
        /\ Built
        /\ build.instructions # <<>>


\* ================================================= senders of a QUIC client
\* Several submission tasks in send_transaction of one SoyasClient or
\* SpeedlandingClient (soyas.rs lines 81-129, speedlanding.rs lines 81-133).
\* The client holds its connection in an ArcSwap and a tokio Mutex<()> named
\* reconnect.  Connection 0 is the one new() made; the connection a sender's
\* reconnect makes is named after the sender.  What the network answers to a
\* send, a connect and a confirmation poll is drawn.  Each sender makes one
\* call.

Senders == 1..MaxSenders

\* a lock that is handed to whoever asks
try_lock_always(holder) == TRUE

\* tokio's Mutex::try_lock (soyas.rs line 82): Ok only when nobody holds it
try_lock(holder) == holder = 0

not_quic == <<swqos_clients, with_tip, is_buy, durable_nonce,
              wait_transaction_confirmed, pc, plan_i, task_configs, tasks,
              collector, w, ret, strategies, fee_call, fee_reader, build,
              send, poll, keepalive, trading, loaded_tables, writers,
              syscall>>

QuicSender(s, r) == quic' = [quic EXCEPT !.senders[s] = r]

QuicReturns(s, outcome) ==
    [quic.senders[s] EXCEPT !.pc = "returned", !.outcome = outcome]

\* SoyasClient::new, SpeedlandingClient::new (lines 45-79)
QuicNew ==
    /\ quic.client = "none"
    /\ \E client \in QuicClients : quic' = [quic EXCEPT !.client = client]
    /\ UNCHANGED not_quic

\* soyas.rs lines 105-107: let connection = self.connection.load_full()
QuicCallSend ==
    \E s \in Senders :
        /\ quic.senders[s].pc = "idle"
        /\ quic.client # "none"
        /\ QuicSender(s, [quic.senders[s] EXCEPT !.pc = "first_send",
                                                 !.loaded = quic.connection])
        /\ UNCHANGED not_quic

\* soyas.rs lines 108-110, speedlanding.rs line 110: the first try_send_bytes
QuicFirstSend ==
    \E s \in Senders :
        /\ quic.senders[s].pc = "first_send"
        /\ \E sent \in BOOLEAN :
              QuicSender(s,
                  IF ~sent
                  THEN [quic.senders[s] EXCEPT !.pc = "try_lock",
                                               !.sends = 1, !.first = "Err"]
                  ELSE IF quic.client = "Soyas"
                  THEN [quic.senders[s] EXCEPT !.pc = "returned",
                                               !.outcome = "Ok",
                                               !.sends = 1, !.first = "Ok"]
                  ELSE [quic.senders[s] EXCEPT !.pc = "poll",
                                               !.sends = 1, !.first = "Ok"])
        /\ UNCHANGED not_quic

\* soyas.rs lines 112 and 82: let _guard = self.reconnect.try_lock()?
QuicTryLock ==
    \E s \in Senders :
        /\ quic.senders[s].pc = "try_lock"
        /\ IF try_lock(quic.reconnect)
           THEN quic' = [quic EXCEPT !.reconnect = s,
                                     !.senders[s].pc = "connect"]
           ELSE QuicSender(s, QuicReturns(s, "Err"))
        /\ UNCHANGED not_quic

\* lines 83-86: connect_with(..)?.await?; a failure drops the guard on the
\* way out
QuicConnect ==
    \E s \in Senders :
        /\ quic.senders[s].pc = "connect"
        /\ \E connected \in BOOLEAN :
              IF connected
              THEN quic' = [quic EXCEPT !.senders[s].pc = "store"]
              ELSE quic' = [quic EXCEPT !.reconnect = 0,
                                        !.senders[s] = QuicReturns(s, "Err")]
        /\ UNCHANGED not_quic

\* line 87: self.connection.store(Arc::new(connection))
QuicStore ==
    \E s \in Senders :
        /\ quic.senders[s].pc = "store"
        /\ quic' = [quic EXCEPT !.connection = s,
                                !.installed = Append(quic.installed, s),
                                !.senders[s].pc = "unlock"]
        /\ UNCHANGED not_quic

\* lines 88-89: Ok(()), and the guard goes out of scope
QuicUnlock ==
    \E s \in Senders :
        /\ quic.senders[s].pc = "unlock"
        /\ quic' = [quic EXCEPT !.reconnect = 0,
                                !.senders[s].pc = "load",
                                !.senders[s].reconnected = TRUE]
        /\ UNCHANGED not_quic

\* soyas.rs line 113: let connection = self.connection.load_full()
QuicLoad ==
    \E s \in Senders :
        /\ quic.senders[s].pc = "load"
        /\ QuicSender(s, [quic.senders[s] EXCEPT !.pc = "retry",
                                                 !.loaded = quic.connection])
        /\ UNCHANGED not_quic

\* soyas.rs line 114, speedlanding.rs lines 114-117: the second
\* try_send_bytes
QuicRetry ==
    \E s \in Senders :
        /\ quic.senders[s].pc = "retry"
        /\ \E sent \in BOOLEAN :
              QuicSender(s,
                  IF sent
                  THEN [quic.senders[s] EXCEPT !.pc = "poll", !.sends = 2]
                  ELSE [QuicReturns(s, "Err") EXCEPT !.sends = 2])
        /\ UNCHANGED not_quic

\* soyas.rs lines 116-128, speedlanding.rs lines 119-132
QuicPoll ==
    \E s \in Senders :
        /\ quic.senders[s].pc = "poll"
        /\ \E outcome \in {"Ok", "Err"} :
              QuicSender(s, QuicReturns(s, outcome))
        /\ UNCHANGED not_quic

QuicNext ==
    \/ QuicNew
    \/ QuicCallSend
    \/ QuicFirstSend
    \/ QuicTryLock
    \/ QuicConnect
    \/ QuicStore
    \/ QuicUnlock
    \/ QuicLoad
    \/ QuicRetry
    \/ QuicPoll

QuicSpec == FeeInit /\ [][QuicNext]_vars

\* the senders inside reconnect with the guard in hand
ReconnectsInProgress ==
    {s \in Senders : quic.senders[s].pc \in {"connect", "store", "unlock"}}

\* the sender is about to make, or has made, its second send
Retries(s) == quic.senders[s].pc = "retry" \/ quic.senders[s].sends = 2

\* connection c was installed by the reconnect of s or by a later one
InstalledSince(s, c) ==
    \E i, j \in 1..Len(quic.installed) :
        /\ quic.installed[i] = s
        /\ quic.installed[j] = c
        /\ i <= j

\* what the claim says of the sends, but for the connection retried on
SendsOnceMore ==
    \A s \in Senders :
        /\ quic.senders[s].sends <= 2
        /\ Retries(s) => quic.senders[s].reconnected
        /\ (quic.senders[s].pc = "returned" /\ quic.senders[s].first = "Err"
            /\ quic.senders[s].sends < 2)
           => quic.senders[s].outcome = "Err"

\* a sender that finds the lock taken leaves with an error at its next step
NeverWaits ==
    \A s \in Senders :
        (/\ quic.senders[s].pc = "try_lock"
         /\ quic.reconnect # 0
         /\ quic'.senders[s] # quic.senders[s])
        => /\ quic'.senders[s].pc = "returned"
           /\ quic'.senders[s].outcome = "Err"

\* C39 as the claim has it: the retry is on the connection the sender's own
\* reconnect installed.
C39_AsClaimed ==
    /\ Cardinality(ReconnectsInProgress) <= 1
    /\ SendsOnceMore
    /\ \A s \in Senders : Retries(s) => quic.senders[s].loaded = s

\* C39: at most one reconnect of a QUIC client is in progress; a sender
\* whose first send failed returns an error or sends once more, after its
\* own reconnect has completed, on the connection the client then holds:
\* the one its reconnect installed or one a later reconnect installed; a
\* sender that finds the lock taken returns an error without waiting.
C39_RetryOnCurrent ==
    /\ [](/\ Cardinality(ReconnectsInProgress) <= 1
          /\ SendsOnceMore
          /\ \A s \in Senders :
                Retries(s) => InstalledSince(s, quic.senders[s].loaded))
    /\ [][NeverWaits]_vars

\* a sender has made its second send on the connection another sender's
\* reconnect installed after its own
C39_Witness ==
    \E s \in Senders :
        /\ quic.senders[s].sends = 2
        /\ quic.senders[s].loaded # s
        /\ quic.senders[s].reconnected


\* ================================================ syscall batch processor
\* SyscallBatchProcessor of perf/syscall_bypass.rs (lines 387-495): a
\* bounded lock-free queue of requests, submit_request that pushes one and
\* execute_batch that pops up to a hundred and runs them.  Both take &self,
\* so requests are submitted while a batch is collected.  The requests
\* accepted go round four of the variants of SyscallRequest, the last one
\* a variant execute_batch has no group for.

BatchLimit == 100

RequestKinds == <<"Write", "Read", "Send", "Recv">>

BatchSizes == {0, 1, MaxBatchSize}

\* line 390: ArrayQueue::new(batch_size * 10)
queue_capacity(batch_size) == batch_size * 10

\* the requests of the three groups only
RECURSIVE grouped_len(_)
grouped_len(batch) ==
    IF batch = <<>> THEN 0
    ELSE (IF Head(batch) = "Recv" THEN 0 ELSE 1) + grouped_len(Tail(batch))

\* line 427: let batch_size = batch.len()
batch_len(batch) == Len(batch)

not_syscall == <<swqos_clients, with_tip, is_buy, durable_nonce,
                 wait_transaction_confirmed, pc, plan_i, task_configs, tasks,
                 collector, w, ret, strategies, fee_call, fee_reader, build,
                 send, poll, keepalive, trading, loaded_tables, writers,
                 quic>>

\* lines 389-400; ArrayQueue::new panics on a capacity of zero
NewProcessor ==
    /\ syscall.pc = "none"
    /\ \E batch_size \in BatchSizes :
          syscall' = [syscall EXCEPT
                         !.pc = IF queue_capacity(batch_size) = 0
                                THEN "panicked" ELSE "idle",
                         !.batch_size = batch_size]
    /\ UNCHANGED not_syscall

\* lines 404-409: push, or Err("Batch queue full") when the queue refuses
SubmitRequest ==
    /\ syscall.pc \in {"idle", "collect", "run"}
    /\ LET request == RequestKinds[syscall.next_request]
           next == (syscall.next_request % Len(RequestKinds)) + 1
       IN IF Len(syscall.pending_calls) < queue_capacity(syscall.batch_size)
          THEN syscall' = [syscall EXCEPT
                   !.pending_calls = Append(syscall.pending_calls, request),
                   !.next_request = next, !.submitted = "Ok"]
          ELSE syscall' = [syscall EXCEPT !.submitted = "Err"]
    /\ UNCHANGED not_syscall

\* line 413: let mut batch = Vec::new()
CallExecuteBatch ==
    /\ syscall.pc = "idle"
    /\ syscall.batch_stats < MaxBatches
    /\ syscall' = [syscall EXCEPT !.pc = "collect", !.batch = <<>>,
                                  !.popped = 0, !.processed = None]
    /\ UNCHANGED not_syscall

\* lines 416-425: one turn of the collecting loop, and what follows it
Collect ==
    /\ syscall.pc = "collect"
    /\ IF Len(syscall.batch) < BatchLimit /\ syscall.pending_calls # <<>>
       THEN syscall' = [syscall EXCEPT
                !.batch = Append(syscall.batch, Head(syscall.pending_calls)),
                !.pending_calls = Tail(syscall.pending_calls),
                !.popped = syscall.popped + 1]
       ELSE IF syscall.batch = <<>>
       THEN syscall' = [syscall EXCEPT !.pc = "idle", !.processed = Some(0)]
       ELSE syscall' = [syscall EXCEPT !.pc = "run"]
    /\ UNCHANGED not_syscall

\* lines 427-468: the batch is split into its groups, each group is run
\* (lines 471-495 log and return Ok), the batch counter goes up
RunBatch ==
    /\ syscall.pc = "run"
    /\ syscall' = [syscall EXCEPT
                      !.pc = "idle", !.batch = <<>>,
                      !.batch_stats = syscall.batch_stats + 1,
                      !.processed = Some(batch_len(syscall.batch))]
    /\ UNCHANGED not_syscall

SyscallNext ==
    \/ NewProcessor
    \/ SubmitRequest
    \/ CallExecuteBatch
    \/ Collect
    \/ RunBatch

SyscallSpec == FeeInit /\ [][SyscallNext]_vars

\* a step of submit_request: no other step leaves both the place of
\* execute_batch and its batch as they were
Submits ==
    /\ syscall' # syscall
    /\ syscall'.pc = syscall.pc
    /\ syscall'.batch = syscall.batch

QueueFull ==
    Len(syscall.pending_calls) >= queue_capacity(syscall.batch_size)

\* C40: execute_batch takes at most 100 requests off the queue and returns
\* the number it took, 0 when it finds the queue empty; submit_request
\* with batch_size * 10 requests pending returns an error and leaves the
\* queue as it was.
C40_BatchCounts ==
    /\ [](/\ syscall.popped <= BatchLimit
          /\ (syscall.pc = "idle" /\ syscall.processed # None)
             => syscall.processed = Some(syscall.popped))
    /\ [][(/\ syscall.pc = "collect"
           /\ syscall.batch = <<>>
           /\ syscall.pending_calls = <<>>
           /\ syscall'.pc # "collect")
          => syscall'.processed = Some(0)]_vars
    /\ [][(Submits /\ QueueFull)
          => /\ syscall'.submitted = "Err"
             /\ syscall'.pending_calls = syscall.pending_calls]_vars

\* a call has returned 100 with requests left in the queue, and the last
\* submit_request was refused
C40_Witness ==
    /\ syscall.pc = "idle"
    /\ syscall.processed = Some(BatchLimit)
    /\ syscall.pending_calls # <<>>
    /\ syscall.submitted = "Err"

====
